---- MODULE Spec2Model ----
(***************************************************************************)
(* The update-construction pipeline of src/src/pull_feed.rs:               *)
(* PullFeed::fetch_update_ix and PullFeed::fetch_update_many_ix running    *)
(* concurrently against one shared SbContext (pull_feed_cache, job_cache,  *)
(* lut_cache), on a cooperative runtime with a fixed number of worker      *)
(* threads.  A run is suspended at every network call; a DashMap shard     *)
(* guard blocks the worker thread of the run that waits for it.            *)
(***************************************************************************)
EXTENDS Integers, Sequences, FiniteSets, TLC

\* ------------------------------------------------------------- bounds
MaxFaults == 1      \* network calls that return an error, in one behaviour
MaxCancels == 1     \* runs whose future is dropped, in one behaviour

\* ------------------------------------------------------------- universes
Runs == {1, 2}                  \* pipeline runs sharing the context
FeedKeys == {1, 2}              \* feed account keys
Hashes == {1, 2}                \* feed_hash values found on chain
Queues == {1}                   \* queue keys found on chain
DefaultKey == 0                 \* Pubkey::default()
OracleKeys == {1}               \* oracles the gateway answers for
Shards == {0, 1}                \* shards of one DashMap
WorkerCounts == {1, 2}          \* worker threads: one, or one for every run

\* PullFeedAccountData, as far as the pipeline reads it.
Snapshots == [feed_hash : Hashes, queue : Queues]

\* One entry of a gateway reply: the oracle, whether success_value parses,
\* whether the signature is valid base64 of 64 bytes.
OracleReplies ==
    {x \in [oracle : OracleKeys, parses : BOOLEAN, sig_ok : BOOLEAN] :
        x.parses \/ x.sig_ok}
GatewayReplies == {<<>>} \cup {<<x>> : x \in OracleReplies}

\* Owner keys of lut_cache: one Pubkey space, three account types.
OwnerKey(c, i) == [cls |-> c, id |-> i]
LutOwners ==
    {OwnerKey("oracle", o) : o \in OracleKeys}
        \cup {OwnerKey("feed", k) : k \in FeedKeys}
        \cup {OwnerKey("queue", q) : q \in Queues \cup {DefaultKey}}
LutClasses == {"oracle", "feed", "queue"}

\* A cache slot: no entry, an entry whose OnceCell is not initialised, or a value.
NoEntry == [tag |-> "none"]
EmptyCell == [tag |-> "empty"]
Ready(v) == [tag |-> "set", val |-> v]
None == [tag |-> "none"]

\* Feed lists of fetch_update_many_ix: empty, two feeds, one feed twice.
FeedLists == {<<>>, <<1, 2>>, <<2, 2>>}

\* FetchUpdateParams / FetchUpdateManyParams.
Requests ==
    {[kind |-> "single", feeds |-> <<k>>] : k \in FeedKeys}
        \cup {[kind |-> "many", feeds |-> s] : s \in FeedLists}

VARIABLES
    workers,           \* worker threads of the runtime
    run,               \* run -> the state of its future (see NewRun)
    pull_feed_cache,   \* feed key -> cache slot
    job_cache,         \* feed_hash -> cache slot
    lut_cache,         \* owner key -> cache slot
    feed_guard,        \* shard of pull_feed_cache -> run holding its RefMut (0: free)
    job_guard,         \* shard of job_cache -> run holding its RefMut (0: free)
    loadCalls,         \* feed key -> invocations of PullFeed::load_data
    loadErrs,          \* feed key -> load_data calls that returned an error
    loadDrops,         \* feed key -> load_data calls dropped in flight
    jobCalls,          \* feed_hash -> invocations of CrossbarClient::fetch
    jobErrs,           \* feed_hash -> registry fetches that returned an error
    jobDrops,          \* feed_hash -> registry fetches dropped in flight
    lutFetches,        \* owner key -> times the key was sent to load_lookup_tables
    lutInserts,        \* owner key -> lut_cache.insert calls for the key
    gwCalls,           \* run -> gateway round-trips issued by the run
    faults,            \* network errors so far
    cancels,           \* runs dropped so far
    quote,             \* a gateway reply and what an entry point makes of it
    signer,            \* a request and the signer count asked of the gateway
    table,             \* a lookup table, a clock, and what lut.rs answers
    resolver           \* accounts on chain, a lut_cache, the resolutions made

feedCacheVars == <<pull_feed_cache, feed_guard, loadCalls, loadErrs, loadDrops>>
jobCacheVars == <<job_cache, job_guard, jobCalls, jobErrs, jobDrops>>
lutCacheVars == <<lut_cache, lutFetches, lutInserts>>
pipelineVars == <<workers, run, feedCacheVars, jobCacheVars, lutCacheVars,
                  gwCalls, faults, cancels>>
pureVars == <<quote, signer, table, resolver>>
vars == <<pipelineVars, pureVars>>

Terminal == {"done", "failed", "cancelled"}
Blocked == {"feedBlocked", "jobBlocked"}
Suspended == {"slot", "feedLoad", "jobLoad", "gateway", "luts"}

\* DashMap::determine_shard: the shard of a key.
ShardOf(k) == k % Cardinality(Shards)

IdleLuts == [c \in LutClasses |-> "idle"]
NoKeys == [c \in LutClasses |-> <<>>]

\* The future of a run before its first poll.  pc: where it stands; params:
\* the request; idx: position in params.feeds; feed_data, jobs: snapshots and
\* job lists obtained, one per feed passed; price_signatures: what the run
\* holds of its gateway reply; lut_state, keys_to_fetch, luts: per class of
\* the join!, the state of that fetch_and_cache_luts, the keys it did not find
\* in lut_cache, the tables it has collected; result: the value returned.
NewRun ==
    [pc |-> "init", params |-> None, idx |-> 0, feed_data |-> <<>>,
     jobs |-> <<>>, price_signatures |-> None, lut_state |-> IdleLuts,
     keys_to_fetch |-> NoKeys, luts |-> NoKeys, result |-> None]

\* A future that has returned or was dropped: its locals are gone, what is
\* left is the outcome and the value handed to the caller.
Returned(outcome, value) == [NewRun EXCEPT !.pc = outcome, !.result = value]

\* SbContext::new() and the runs not yet started.
ContextNew ==
    /\ run = [r \in Runs |-> NewRun]
    /\ pull_feed_cache = [k \in FeedKeys |-> NoEntry]
    /\ job_cache = [h \in Hashes |-> NoEntry]
    /\ lut_cache = [o \in LutOwners |-> NoEntry]
    /\ feed_guard = [s \in Shards |-> 0]
    /\ job_guard = [s \in Shards |-> 0]
    /\ loadCalls = [k \in FeedKeys |-> 0]
    /\ loadErrs = [k \in FeedKeys |-> 0]
    /\ loadDrops = [k \in FeedKeys |-> 0]
    /\ jobCalls = [h \in Hashes |-> 0]
    /\ jobErrs = [h \in Hashes |-> 0]
    /\ jobDrops = [h \in Hashes |-> 0]
    /\ lutFetches = [o \in LutOwners |-> 0]
    /\ lutInserts = [o \in LutOwners |-> 0]
    /\ gwCalls = [r \in Runs |-> 0]
    /\ faults = 0
    /\ cancels = 0

\* The pipeline before its first run; no pure function is under evaluation.
Init ==
    /\ workers \in WorkerCounts
    /\ ContextNew
    /\ resolver = None
    /\ quote = None
    /\ signer = None
    /\ table = None

\* A worker thread is free to poll a run: not every worker is parked on a guard.
WorkerFree == Cardinality({r \in Runs : run[r].pc \in Blocked}) < workers

\* A network call may come back with an error.
MayFail == faults < MaxFaults

Last(s) == s[Len(s)]

\* A guard that outlives the future that held it.
GuardLeaked(guard, r) == guard

\* The guard a run holds on a shard is dropped.
Release(guard, r) == [sh \in Shards |-> IF guard[sh] = r THEN 0 ELSE guard[sh]]

\* The feed the run is loading, and the hash whose jobs it is loading.
CurFeed(r) == run[r].params.feeds[run[r].idx]

\* ------------------------------------------------------------- entry points

\* The first poll of fetch_update_ix (the slot-hash call is issued) or of
\* fetch_update_many_ix (the for loop is entered; an empty list goes straight
\* to the slot-hash call).  Runs are interchangeable: they start in order.
Begin(r) ==
    /\ run[r].pc = "init"
    /\ \A r2 \in Runs : r2 < r => run[r2].pc # "init"
    /\ WorkerFree
    /\ \E q \in Requests :
        run' = [run EXCEPT
                   ![r] = [@ EXCEPT
                       !.params = q,
                       !.idx = IF q.feeds = <<>> THEN 0 ELSE 1,
                       !.pc = IF q.kind = "single" \/ q.feeds = <<>>
                              THEN "slot" ELSE "feedEnter"]]
    /\ UNCHANGED <<pureVars, workers, feedCacheVars, jobCacheVars, lutCacheVars,
                   gwCalls, faults, cancels>>

\* SlotHashSysvar::get_latest_slothash returned a slot hash: fetch_update_ix goes
\* on to the feed, fetch_update_many_ix to the gateway call.
SlotOk(r) ==
    /\ run[r].pc = "slot"
    /\ WorkerFree
    /\ IF run[r].params.kind = "single"
       THEN /\ run' = [run EXCEPT ![r].pc = "feedEnter"]
            /\ UNCHANGED gwCalls
       ELSE /\ run' = [run EXCEPT ![r].pc = "gateway"]
            /\ gwCalls' = [gwCalls EXCEPT ![r] = @ + 1]
    /\ UNCHANGED <<pureVars, workers, feedCacheVars, jobCacheVars, lutCacheVars,
                   faults, cancels>>

\* get_latest_slothash failed: `?` returns the error.
SlotErr(r) ==
    /\ run[r].pc = "slot"
    /\ WorkerFree
    /\ MayFail
    /\ faults' = faults + 1
    /\ run' = [run EXCEPT ![r] = Returned("failed", None)]
    /\ UNCHANGED <<pureVars, workers, feedCacheVars, jobCacheVars, lutCacheVars,
                   gwCalls, cancels>>

\* ------------------------------------------------------------- LoadFeed

\* entry(key).or_insert_with(OnceCell::new): the slot after the call.
or_insert_with(cell) == IF cell.tag = "none" THEN EmptyCell ELSE cell

\* A feed cell that never counts as initialised: every caller runs the init future.
FeedCellNeverReady(cell) == FALSE

\* OnceCell::get_or_try_init on the feed cell: the value is there already.
FeedCellReady(cell) == cell.tag = "set"

\* A LoadFeed whose guard is dropped before load_data is awaited.
FeedGuardDropped(guard, sh, r) == guard

\* The RefMut returned by or_insert_with is a temporary of the `let` statement:
\* it lives across the await of load_data, so the shard stays write-locked.
FeedGuardHeld(guard, sh, r) == [guard EXCEPT ![sh] = r]

\* A cell that keeps what the init future produced, whatever its outcome.
FeedCellPoisoned(cell, ok, v) == Ready(v)

\* The cell once the init future of get_or_try_init has returned: set on Ok,
\* left uninitialised on Err.
FeedCellAfterInit(cell, ok, v) == IF ok THEN Ready(v) ELSE cell

\* pull_feed_cache.entry(feed): the run parks its worker while another run holds
\* the shard; otherwise it takes the cached snapshot or starts load_data.  (No
\* run ever waits on the cell itself: the guard keeps every other run away
\* from the cell while its init future is in flight.)
FeedEnter(r) ==
    /\ run[r].pc \in {"feedEnter", "feedBlocked"}
    /\ run[r].pc = "feedEnter" => WorkerFree
    /\ LET k == CurFeed(r)
           sh == ShardOf(k)
           cell == or_insert_with(pull_feed_cache[k])
       IN  IF feed_guard[sh] # 0
           THEN /\ run[r].pc = "feedEnter"
                /\ run' = [run EXCEPT ![r].pc = "feedBlocked"]
                /\ UNCHANGED <<pull_feed_cache, feed_guard, loadCalls>>
           ELSE /\ pull_feed_cache' = [pull_feed_cache EXCEPT ![k] = cell]
                /\ IF FeedCellReady(cell)
                   THEN /\ run' = [run EXCEPT
                                      ![r] = [@ EXCEPT
                                          !.feed_data = Append(@, cell.val),
                                          !.pc = "jobEnter"]]
                        /\ UNCHANGED <<feed_guard, loadCalls>>
                   ELSE /\ feed_guard' = FeedGuardHeld(feed_guard, sh, r)
                        /\ loadCalls' = [loadCalls EXCEPT ![k] = @ + 1]
                        /\ run' = [run EXCEPT ![r].pc = "feedLoad"]
    /\ UNCHANGED <<pureVars, workers, loadErrs, loadDrops, jobCacheVars, lutCacheVars,
                   gwCalls, faults, cancels>>

\* PullFeed::load_data returned a snapshot: the cell is set, the value cloned,
\* the guard dropped at the end of the statement.
FeedLoadOk(r) ==
    /\ run[r].pc = "feedLoad"
    /\ WorkerFree
    /\ \E s \in Snapshots :
        /\ pull_feed_cache' =
               [pull_feed_cache EXCEPT ![CurFeed(r)] = FeedCellAfterInit(@, TRUE, s)]
        /\ run' = [run EXCEPT
                      ![r] = [@ EXCEPT !.feed_data = Append(@, s), !.pc = "jobEnter"]]
    /\ feed_guard' = Release(feed_guard, r)
    /\ UNCHANGED <<pureVars, workers, loadCalls, loadErrs, loadDrops, jobCacheVars,
                   lutCacheVars, gwCalls, faults, cancels>>

\* load_data failed (account not found, or not parsable): `?` returns the error.
FeedLoadErr(r) ==
    /\ run[r].pc = "feedLoad"
    /\ WorkerFree
    /\ MayFail
    /\ faults' = faults + 1
    /\ pull_feed_cache' =
           [pull_feed_cache EXCEPT
               ![CurFeed(r)] = FeedCellAfterInit(@, FALSE, CHOOSE s \in Snapshots : TRUE)]
    /\ loadErrs' = [loadErrs EXCEPT ![CurFeed(r)] = @ + 1]
    /\ feed_guard' = Release(feed_guard, r)
    /\ run' = [run EXCEPT ![r] = Returned("failed", None)]
    /\ UNCHANGED <<pureVars, workers, loadCalls, loadDrops, jobCacheVars, lutCacheVars,
                   gwCalls, cancels>>

\* ------------------------------------------------------------- LoadJobSpec

\* The key of job_cache the run asks for: the feed_hash of the snapshot.
JobKey(snapshot) == snapshot.feed_hash

\* The hash whose job list the run is loading.
CurHash(r) == JobKey(Last(run[r].feed_data))

\* A job cell that never counts as initialised.
JobCellNeverReady(cell) == FALSE

\* OnceCell::get_or_try_init on the job cell: the value is there already.
JobCellReady(cell) == cell.tag = "set"

\* The RefMut of job_cache.entry(..) lives across the await of crossbar.fetch.
JobGuardHeld(guard, sh, r) == [guard EXCEPT ![sh] = r]

\* The job list the registry returns for a hash: the answer to the n-th request
\* for it (two requests need not be answered alike).
JobList(h, n) == [hash |-> h, reply |-> n]

\* The job cell once the init future has returned.
JobCellAfterInit(cell, ok, v) == IF ok THEN Ready(v) ELSE cell

\* A loop that leaves after its first feed.
AfterJobFirst(p, i) == IF p.kind = "single" THEN "gateway" ELSE "slot"

\* What follows the job list of the current feed: fetch_update_ix calls the
\* gateway; fetch_update_many_ix takes the next feed of the loop, and after
\* the last one asks for the slot hash.
AfterJob(p, i) ==
    IF p.kind = "single" THEN "gateway"
    ELSE IF i < Len(p.feeds) THEN "feedEnter" ELSE "slot"

\* The run has the job list j of the current feed and moves on to AfterJob.
Advance(r, j) ==
    LET next == AfterJob(run[r].params, run[r].idx)
    IN  /\ run' = [run EXCEPT
                      ![r] = [@ EXCEPT
                          !.jobs = Append(@, j),
                          !.idx = IF next = "feedEnter" THEN @ + 1 ELSE @,
                          !.pc = next]]
        /\ gwCalls' = [gwCalls EXCEPT ![r] = IF next = "gateway" THEN @ + 1 ELSE @]

\* job_cache.entry(feed_hash): parked behind another run's guard, served from
\* the cache, or starting the registry fetch.
JobEnter(r) ==
    /\ run[r].pc \in {"jobEnter", "jobBlocked"}
    /\ run[r].pc = "jobEnter" => WorkerFree
    /\ LET h == CurHash(r)
           sh == ShardOf(h)
           cell == or_insert_with(job_cache[h])
       IN  IF job_guard[sh] # 0
           THEN /\ run[r].pc = "jobEnter"
                /\ run' = [run EXCEPT ![r].pc = "jobBlocked"]
                /\ UNCHANGED <<job_cache, job_guard, jobCalls, gwCalls>>
           ELSE /\ job_cache' = [job_cache EXCEPT ![h] = cell]
                /\ IF JobCellReady(cell)
                   THEN /\ Advance(r, cell.val)
                        /\ UNCHANGED <<job_guard, jobCalls>>
                   ELSE /\ job_guard' = JobGuardHeld(job_guard, sh, r)
                        /\ jobCalls' = [jobCalls EXCEPT ![h] = @ + 1]
                        /\ run' = [run EXCEPT ![r].pc = "jobLoad"]
                        /\ UNCHANGED gwCalls
    /\ UNCHANGED <<pureVars, workers, jobErrs, jobDrops, feedCacheVars, lutCacheVars,
                   faults, cancels>>

\* crossbar.fetch returned and the "jobs" field deserialised.
JobLoadOk(r) ==
    /\ run[r].pc = "jobLoad"
    /\ WorkerFree
    /\ LET h == CurHash(r)
           j == JobList(h, jobCalls[h])
       IN  /\ job_cache' = [job_cache EXCEPT ![h] = JobCellAfterInit(@, TRUE, j)]
           /\ Advance(r, j)
    /\ job_guard' = Release(job_guard, r)
    /\ UNCHANGED <<pureVars, workers, jobCalls, jobErrs, jobDrops, feedCacheVars,
                   lutCacheVars, faults, cancels>>

\* crossbar.fetch failed, or the jobs did not deserialise: `?` returns the error.
JobLoadErr(r) ==
    /\ run[r].pc = "jobLoad"
    /\ WorkerFree
    /\ MayFail
    /\ faults' = faults + 1
    /\ LET h == CurHash(r)
       IN  /\ job_cache' =
                  [job_cache EXCEPT
                      ![h] = JobCellAfterInit(@, FALSE, JobList(h, jobCalls[h]))]
           /\ jobErrs' = [jobErrs EXCEPT ![h] = @ + 1]
    /\ job_guard' = Release(job_guard, r)
    /\ run' = [run EXCEPT ![r] = Returned("failed", None)]
    /\ UNCHANGED <<pureVars, workers, jobCalls, jobDrops, feedCacheVars, lutCacheVars,
                   gwCalls, cancels>>

\* ------------------------------------------------------------- CollectQuotes

\* oracle_keys: the oracle of every response, in the order of the reply.
oracle_keys(reply) == [i \in DOMAIN reply |-> OwnerKey("oracle", reply[i].oracle)]

\* A CollectQuotes that hands out the quotes another run holds, when there are any.
QuotesShared(r, reply, held) ==
    IF \E x \in Runs \ {r} : held[x].tag = "set"
    THEN held[CHOOSE x \in Runs \ {r} : held[x].tag = "set"]
    ELSE [tag |-> "set", by |-> r,
          oracles |-> [i \in DOMAIN reply |-> [cls |-> "oracle", id |-> reply[i].oracle]]]

\* What a run keeps of the gateway round-trip once the instruction is built:
\* it is the reply to its own call (by), and the oracles that answered.  `held`
\* is what the runs hold of earlier replies; the code never looks at it.
Quotes(r, reply, held) == [tag |-> "set", by |-> r, oracles |-> oracle_keys(reply)]

\* num_successes of fetch_update_ix: responses whose success_value parses.
num_successes(reply) == Cardinality({i \in DOMAIN reply : reply[i].parses})

\* The run stops after the reply: fetch_update_ix on zero successes,
\* fetch_update_many_ix on a signature that does not decode.
ReplyRejected(p, reply) ==
    IF p.kind = "single"
    THEN num_successes(reply) = 0
    ELSE \E i \in DOMAIN reply : ~reply[i].sig_ok

\* ------------------------------------------------------------- ResolveLookupTables

\* AddressLookupTableAccount of an owner: its derived address and addresses.
Table(o) == [lut_of |-> o]

Occurrences(seq, o) == Cardinality({i \in DOMAIN seq : seq[i] = o})

\* The owner keys of the three fetch_and_cache_luts calls of the join!.
Owners(p, data, oracles) ==
    [c \in LutClasses |->
        CASE c = "oracle" -> oracles
          [] c = "feed" ->
                [i \in DOMAIN p.feeds |-> OwnerKey("feed", p.feeds[i])]
          [] c = "queue" ->
                <<OwnerKey("queue",
                           IF data = <<>> THEN DefaultKey ELSE Last(data).queue)>>]

\* fetch_and_cache_luts, the loop over the keys: tables found in lut_cache.
CachedLuts(cache, keys) ==
    LET hit == SelectSeq(keys, LAMBDA o : cache[o].tag = "set")
    IN  [i \in DOMAIN hit |-> cache[hit[i]].val]

\* fetch_and_cache_luts, the loop over the keys: keys left to fetch.
KeysToFetch(cache, keys) == SelectSeq(keys, LAMBDA o : cache[o].tag # "set")

\* join!: every one of the three futures has returned.
JoinDone(st) == \A c \in LutClasses : st[c] \in {"ok", "err"}

\* A join! whose errors are dropped.
JoinOutcomeLenient(st) == "done"

\* The three `?` after the join!: any error fails the run.
JoinOutcome(st) == IF \E c \in LutClasses : st[c] = "err" THEN "failed" ELSE "done"

\* A merge that puts the feed tables first.
BundleFeedFirst(q, tabs) ==
    [tag |-> "ok", by |-> q.by, oracles |-> q.oracles,
     luts |-> tabs["feed"] \o tabs["oracle"] \o tabs["queue"]]

\* The value returned on success: the instruction built from the run's quotes
\* and the tables, oracle tables first, then feed tables, then the queue table.
Bundle(q, tabs) ==
    [tag |-> "ok", by |-> q.by, oracles |-> q.oracles,
     luts |-> tabs["oracle"] \o tabs["feed"] \o tabs["queue"]]

\* The run after a poll of the join! that left it with the states st, the keys
\* todo and the tables tabs, holding the quotes q: still waiting, or returning.
Join(r, q, st, todo, tabs) ==
    IF JoinDone(st)
    THEN run' = [run EXCEPT
                    ![r] = IF JoinOutcome(st) = "done"
                           THEN Returned("done", Bundle(q, tabs))
                           ELSE Returned(JoinOutcome(st), None)]
    ELSE run' = [run EXCEPT
                    ![r] = [@ EXCEPT
                        !.pc = "luts", !.price_signatures = q, !.lut_state = st,
                        !.keys_to_fetch = todo, !.luts = tabs]]

\* The gateway answered.  A rejected reply returns the error; otherwise the
\* instruction is built and the join! is polled for the first time: each
\* fetch_and_cache_luts scans lut_cache and sends its missing keys to
\* load_lookup_tables.
GatewayOk(r) ==
    /\ run[r].pc = "gateway"
    /\ WorkerFree
    /\ \E reply \in GatewayReplies :
        LET q == Quotes(r, reply, [x \in Runs |-> run[x].price_signatures])
        IN  IF ReplyRejected(run[r].params, reply)
            THEN /\ run' = [run EXCEPT ![r] = Returned("failed", None)]
                 /\ UNCHANGED lutFetches
            ELSE LET own == Owners(run[r].params, run[r].feed_data, q.oracles)
                     todo == [c \in LutClasses |-> KeysToFetch(lut_cache, own[c])]
                     tabs == [c \in LutClasses |-> CachedLuts(lut_cache, own[c])]
                     st == [c \in LutClasses |->
                               IF todo[c] = <<>> THEN "ok" ELSE "wait"]
                 IN  /\ lutFetches' =
                            [o \in LutOwners |->
                                lutFetches[o] + Occurrences(todo[o.cls], o)]
                     /\ Join(r, q, st, todo, tabs)
    /\ UNCHANGED <<pureVars, workers, feedCacheVars, jobCacheVars, lut_cache, lutInserts,
                   gwCalls, faults, cancels>>

\* The gateway call failed: `?` returns the error.
GatewayErr(r) ==
    /\ run[r].pc = "gateway"
    /\ WorkerFree
    /\ MayFail
    /\ faults' = faults + 1
    /\ run' = [run EXCEPT ![r] = Returned("failed", None)]
    /\ UNCHANGED <<pureVars, workers, feedCacheVars, jobCacheVars, lutCacheVars,
                   gwCalls, cancels>>

\* load_lookup_tables failed (either get_multiple_accounts call, an owner
\* account that is not a T, a table that does not deserialise): this future
\* of the join! returns Err; its siblings go on.
LutErr(r, c) ==
    /\ run[r].pc = "luts"
    /\ run[r].lut_state[c] = "wait"
    /\ WorkerFree
    /\ MayFail
    /\ faults' = faults + 1
    /\ Join(r, run[r].price_signatures, [run[r].lut_state EXCEPT ![c] = "err"],
            run[r].keys_to_fetch, run[r].luts)
    /\ UNCHANGED <<pureVars, workers, feedCacheVars, jobCacheVars, lutCacheVars,
                   gwCalls, cancels>>

\* load_lookup_tables returned the tables (both get_multiple_accounts calls
\* answered and every account parsed; nothing shared is touched between the
\* two calls): each fetched key is inserted into lut_cache and its table
\* pushed after the cached ones.
LutTablesOk(r, c) ==
    /\ run[r].pc = "luts"
    /\ run[r].lut_state[c] = "wait"
    /\ WorkerFree
    /\ LET todo == run[r].keys_to_fetch[c]
           st == [run[r].lut_state EXCEPT ![c] = "ok"]
           tabs == [run[r].luts EXCEPT
                       ![c] = @ \o [i \in DOMAIN todo |-> Table(todo[i])]]
       IN  /\ lut_cache' =
                  [o \in LutOwners |->
                      IF Occurrences(todo, o) > 0 THEN Ready(Table(o)) ELSE lut_cache[o]]
           /\ lutInserts' =
                  [o \in LutOwners |-> lutInserts[o] + Occurrences(todo, o)]
           /\ Join(r, run[r].price_signatures, st, run[r].keys_to_fetch, tabs)
    /\ UNCHANGED <<pureVars, workers, feedCacheVars, jobCacheVars, lutFetches,
                   gwCalls, faults, cancels>>

\* ------------------------------------------------------------- abandonment

\* The caller drops the run's future at an await: the init future of a cell is
\* dropped with it, the cell stays as it was, the guard it held is released.
Cancel(r) ==
    /\ run[r].pc \in Suspended
    /\ WorkerFree
    /\ cancels < MaxCancels
    /\ cancels' = cancels + 1
    /\ run' = [run EXCEPT ![r] = Returned("cancelled", None)]
    /\ feed_guard' = Release(feed_guard, r)
    /\ job_guard' = Release(job_guard, r)
    /\ loadDrops' =
           [k \in FeedKeys |->
               IF run[r].pc = "feedLoad" /\ k = CurFeed(r)
               THEN loadDrops[k] + 1 ELSE loadDrops[k]]
    /\ jobDrops' =
           [h \in Hashes |->
               IF run[r].pc = "jobLoad" /\ h = CurHash(r)
               THEN jobDrops[h] + 1 ELSE jobDrops[h]]
    /\ UNCHANGED <<pureVars, workers, pull_feed_cache, loadCalls, loadErrs, job_cache,
                   jobCalls, jobErrs, lutCacheVars, gwCalls, faults>>

\* ------------------------------------------------------------- specification

Next ==
    \E r \in Runs :
        \/ Begin(r)
        \/ SlotOk(r)
        \/ SlotErr(r)
        \/ FeedEnter(r)
        \/ FeedLoadOk(r)
        \/ FeedLoadErr(r)
        \/ JobEnter(r)
        \/ JobLoadOk(r)
        \/ JobLoadErr(r)
        \/ GatewayOk(r)
        \/ GatewayErr(r)
        \/ \E c \in LutClasses : LutErr(r, c)
        \/ \E c \in LutClasses : LutTablesOk(r, c)
        \/ Cancel(r)

Spec == Init /\ [][Next]_vars

\* ------------------------------------------------------------- properties

Alive(r) == run[r].pc \notin Terminal \cup {"init"}

\* The feed keys and hashes the run holds a snapshot or a job list of.
Held(r) == DOMAIN run[r].feed_data
HeldJobs(r) == DOMAIN run[r].jobs

\* No load_data call for the key failed or was dropped.
FeedUndisturbed(k) == loadErrs[k] = 0 /\ loadDrops[k] = 0
JobUndisturbed(h) == jobErrs[h] = 0 /\ jobDrops[h] = 0

\* C1  Single-flight for a feed key: as long as no load_data call for the key
\* has failed and none was dropped, load_data has been invoked at most once
\* for it, exactly once as soon as a run holds a snapshot of it, and every run
\* holding a snapshot of the key holds the one in the cache, so any two runs
\* hold identical snapshots.
C1_SingleFlight ==
    /\ \A k \in FeedKeys : FeedUndisturbed(k) => loadCalls[k] <= 1
    /\ \A r \in Runs : \A i \in Held(r) :
        LET k == run[r].params.feeds[i]
        IN  /\ pull_feed_cache[k] = Ready(run[r].feed_data[i])
            /\ FeedUndisturbed(k) => loadCalls[k] = 1
    /\ \A r1, r2 \in Runs : \A i1 \in Held(r1) : \A i2 \in Held(r2) :
        run[r1].params.feeds[i1] = run[r2].params.feeds[i2]
            => run[r1].feed_data[i1] = run[r2].feed_data[i2]

\* Two runs in flight at once hold a snapshot of the same key, one of them
\* having waited for the guard or found the cell set: load_data ran once.
C1_Witness ==
    \E k \in FeedKeys :
        /\ loadCalls[k] = 1
        /\ FeedUndisturbed(k)
        /\ \A r \in Runs :
            /\ Alive(r)
            /\ \E i \in Held(r) : run[r].params.feeds[i] = k

\* C2  No failure caching, for feed keys and job-schema hashes: the step in
\* which a fetch fails makes the run return the error with no value, and
\* leaves the cache without a value for the key; a run that enters the cache
\* for a key without a value starts the fetch (again); a fetch that succeeds
\* lets the run go on with the value and leaves this value in the cache.
C2_NoFailureCaching ==
    [][\A r \in Runs :
          /\ (run[r].pc = "feedLoad" /\ run'[r].pc = "failed")
                => /\ loadErrs'[CurFeed(r)] = loadErrs[CurFeed(r)] + 1
                   /\ run'[r] = Returned("failed", None)
                   /\ pull_feed_cache'[CurFeed(r)].tag # "set"
          /\ (run[r].pc = "jobLoad" /\ run'[r].pc = "failed")
                => /\ jobErrs'[CurHash(r)] = jobErrs[CurHash(r)] + 1
                   /\ run'[r] = Returned("failed", None)
                   /\ job_cache'[CurHash(r)].tag # "set"
          /\ (/\ run[r].pc \in {"feedEnter", "feedBlocked"}
              /\ run'[r].pc \notin {"feedEnter", "feedBlocked"}
              /\ pull_feed_cache[CurFeed(r)].tag # "set")
                => /\ run'[r].pc = "feedLoad"
                   /\ loadCalls'[CurFeed(r)] = loadCalls[CurFeed(r)] + 1
          /\ (/\ run[r].pc \in {"jobEnter", "jobBlocked"}
              /\ run'[r].pc \notin {"jobEnter", "jobBlocked"}
              /\ job_cache[CurHash(r)].tag # "set")
                => /\ run'[r].pc = "jobLoad"
                   /\ jobCalls'[CurHash(r)] = jobCalls[CurHash(r)] + 1
          /\ (run[r].pc = "feedLoad" /\ run'[r].pc = "jobEnter")
                => pull_feed_cache'[CurFeed(r)] = Ready(Last(run'[r].feed_data))
          /\ (run[r].pc = "jobLoad" /\ run'[r].pc \notin {"jobLoad", "failed", "cancelled"})
                => job_cache'[CurHash(r)] = Ready(Last(run'[r].jobs))
      ]_vars

\* A load_data call for a key failed and its run returned the error; the next
\* call for the key succeeded, the value is cached and a run has returned a
\* bundle.
C2_Witness ==
    \E k \in FeedKeys :
        /\ loadErrs[k] = 1
        /\ loadCalls[k] = 2
        /\ loadDrops[k] = 0
        /\ pull_feed_cache[k].tag = "set"
        /\ \E r1, r2 \in Runs :
            /\ run[r1].pc = "failed"
            /\ run[r2].pc = "done"
            /\ Table(OwnerKey("feed", k)) \in {run[r2].result.luts[i] :
                                                  i \in DOMAIN run[r2].result.luts}

\* C3  Permanent success: once the cache holds a value for a feed key or for
\* a job-schema hash, no step changes or removes that value, and no step
\* issues another fetch for the key.
C3_PermanentSuccess ==
    [][/\ \A k \in FeedKeys :
            pull_feed_cache[k].tag = "set"
                => /\ pull_feed_cache'[k] = pull_feed_cache[k]
                   /\ loadCalls'[k] = loadCalls[k]
       /\ \A h \in Hashes :
            job_cache[h].tag = "set"
                => /\ job_cache'[h] = job_cache[h]
                   /\ jobCalls'[h] = jobCalls[h]
      ]_vars

\* Both runs have returned a bundle for the same feed, one after the other
\* (the second began when the first was over), and the feed and its job list
\* were fetched once.
C3_Witness ==
    \E k \in FeedKeys :
        /\ loadCalls[k] = 1
        /\ pull_feed_cache[k].tag = "set"
        /\ jobCalls[JobKey(pull_feed_cache[k].val)] = 1
        /\ \A r \in Runs :
            /\ run[r].pc = "done"
            /\ gwCalls[r] = 1
            /\ run[r].result.luts =
                   <<Table(OwnerKey("oracle", 1)), Table(OwnerKey("feed", k)),
                     Table(OwnerKey("queue", 1))>>

\* C4  Lookup-table cache single insertion (as the specification states it):
\* with no network error and no run dropped, every owner key is sent to
\* load_lookup_tables at most once and inserted into lut_cache at most once.
\* fetch_and_cache_luts checks lut_cache, awaits, then inserts: two calls that
\* both miss both fetch and both insert.
C4_SingleInsertion ==
    (faults = 0 /\ cancels = 0)
        => \A o \in LutOwners : lutFetches[o] <= 1 /\ lutInserts[o] <= 1

\* C5  Every pipeline run terminates (as the specification states it), in the
\* form a finite behaviour refutes: whenever a run is under way, some step is
\* possible, so no state is reached in which a run is parked on a guard whose
\* holder can never be polled again.
C5_NoStuckRun == (\E r \in Runs : Alive(r)) => ENABLED Next

\* C6 as the specification states it: a run that waits for a key whose fetch
\* is in flight is served by that fetch even when the fetching run is dropped,
\* so unless a fetch for the key has returned an error, a waiting run never
\* issues a fetch of its own.
C6_FetchSurvivesDrop ==
    [][\A w \in Runs :
          /\ (run[w].pc = "feedBlocked" /\ loadErrs'[CurFeed(w)] = 0)
                => loadCalls'[CurFeed(w)] = loadCalls[CurFeed(w)]
          /\ (run[w].pc = "jobBlocked" /\ jobErrs'[CurHash(w)] = 0)
                => jobCalls'[CurHash(w)] = jobCalls[CurHash(w)]
      ]_vars

\* C6  What the code does when the run that started a fetch is dropped while
\* the fetch is in flight: the fetch is dropped with it, the cell is left
\* uninitialised and the guard is released, no other fetch is touched; a run
\* that waited for the guard and finds the cell uninitialised issues a fetch
\* of its own; and never are two fetches for one key in flight together.
C6_DroppedFetchIsReissued ==
    [][/\ \A r \in Runs :
            /\ (run[r].pc = "feedLoad" /\ run'[r].pc = "cancelled")
                  => /\ pull_feed_cache'[CurFeed(r)] = EmptyCell
                     /\ feed_guard'[ShardOf(CurFeed(r))] = 0
                     /\ loadDrops'[CurFeed(r)] = loadDrops[CurFeed(r)] + 1
                     /\ loadCalls' = loadCalls
            /\ (run[r].pc = "jobLoad" /\ run'[r].pc = "cancelled")
                  => /\ job_cache'[CurHash(r)] = EmptyCell
                     /\ job_guard'[ShardOf(CurHash(r))] = 0
                     /\ jobDrops'[CurHash(r)] = jobDrops[CurHash(r)] + 1
                     /\ jobCalls' = jobCalls
            /\ (/\ run[r].pc = "feedBlocked"
                /\ run'[r].pc # "feedBlocked"
                /\ pull_feed_cache[CurFeed(r)] = EmptyCell)
                  => /\ run'[r].pc = "feedLoad"
                     /\ loadCalls'[CurFeed(r)] = loadCalls[CurFeed(r)] + 1
            /\ (/\ run[r].pc = "jobBlocked"
                /\ run'[r].pc # "jobBlocked"
                /\ job_cache[CurHash(r)] = EmptyCell)
                  => /\ run'[r].pc = "jobLoad"
                     /\ jobCalls'[CurHash(r)] = jobCalls[CurHash(r)] + 1
       /\ \A r1, r2 \in Runs :
            /\ (run[r1].pc = "feedLoad" /\ run[r2].pc = "feedLoad" /\ r1 # r2)
                  => CurFeed(r1) # CurFeed(r2)
            /\ (run[r1].pc = "jobLoad" /\ run[r2].pc = "jobLoad" /\ r1 # r2)
                  => CurHash(r1) # CurHash(r2)
      ]_vars

\* The run that fetched a feed key has been dropped with the fetch in flight
\* while another run was parked on the guard for the same key: the guard is
\* free again, the cell is uninitialised, no fetch has returned an error, and
\* the parked run is about to enter.
C6_Witness ==
    \E k \in FeedKeys : \E r, w \in Runs :
        /\ run[r].pc = "cancelled"
        /\ run[w].pc = "feedBlocked"
        /\ CurFeed(w) = k
        /\ feed_guard[ShardOf(k)] = 0
        /\ pull_feed_cache[k] = EmptyCell
        /\ loadDrops[k] = 1
        /\ loadCalls[k] = 1
        /\ faults = 0

\* C7  Job spec is fetched once per schema hash: as long as no registry fetch
\* for a hash has failed or was dropped, the registry has been queried at most
\* once for it, exactly once as soon as a feed holds a job list of it; every
\* job list a run holds is the one cached under the feed_hash of the feed's
\* snapshot, so feeds with the same feed_hash, in one call or in several runs,
\* use the same job list.
C7_JobSpecOncePerHash ==
    /\ \A h \in Hashes : JobUndisturbed(h) => jobCalls[h] <= 1
    /\ \A r \in Runs : \A i \in HeldJobs(r) :
        LET h == run[r].feed_data[i].feed_hash
        IN  /\ job_cache[h] = Ready(run[r].jobs[i])
            /\ JobUndisturbed(h) => jobCalls[h] = 1
    /\ \A r1, r2 \in Runs : \A i1 \in HeldJobs(r1) : \A i2 \in HeldJobs(r2) :
        run[r1].feed_data[i1].feed_hash = run[r2].feed_data[i2].feed_hash
            => run[r1].jobs[i1] = run[r2].jobs[i2]

\* One fetch_update_many_ix call holds the job lists of two different feeds
\* with the same feed_hash, another run in flight holds the job list of a feed
\* with that hash too, and the registry was queried once for the hash.
C7_Witness ==
    \E h \in Hashes : \E r1, r2 \in Runs :
        /\ r1 # r2
        /\ Alive(r1)
        /\ Alive(r2)
        /\ run[r1].params.feeds = <<1, 2>>
        /\ Len(run[r1].jobs) = 2
        /\ run[r1].feed_data[1].feed_hash = h
        /\ run[r1].feed_data[2].feed_hash = h
        /\ Len(run[r2].jobs) >= 1
        /\ run[r2].feed_data[1].feed_hash = h
        /\ jobCalls[h] = 1
        /\ JobUndisturbed(h)

\* C8  Quote collection is never memoized: a run issues its gateway call when
\* it reaches CollectQuotes and never a second one, whatever the caches hold
\* and whatever other runs do; the quotes a run holds, and the quotes in the
\* bundle it returns, are the reply to its own call.
C8_QuotesNotMemoized ==
    \A r \in Runs :
        /\ gwCalls[r] <= 1
        /\ run[r].pc \in {"gateway", "luts", "done"} => gwCalls[r] = 1
        /\ run[r].pc \in {"init", "feedEnter", "feedBlocked", "feedLoad",
                          "jobEnter", "jobBlocked", "jobLoad"} => gwCalls[r] = 0
        /\ run[r].price_signatures.tag = "set" => run[r].price_signatures.by = r
        /\ run[r].result.tag = "ok" => run[r].result.by = r

\* A run has returned its bundle for a feed; a second run for the same feed,
\* served from the feed and job caches (one fetch each), holds quotes of its
\* own gateway call.
C8_Witness ==
    \E k \in FeedKeys : \E r1, r2 \in Runs :
        /\ run[r1].pc = "done"
        /\ run[r1].result.by = r1
        /\ \E i \in DOMAIN run[r1].result.luts :
               run[r1].result.luts[i] = Table(OwnerKey("feed", k))
        /\ run[r2].pc = "luts"
        /\ run[r2].params = [kind |-> "single", feeds |-> <<k>>]
        /\ run[r2].price_signatures.by = r2
        /\ loadCalls[k] = 1
        /\ jobCalls[run[r2].feed_data[1].feed_hash] = 1
        /\ gwCalls[r1] = 1
        /\ gwCalls[r2] = 1

\* The owner keys of a run's request, as a set: one per oracle that answered,
\* one per feed, and the queue.
OwnerSet(r, oracles) ==
    LET own == Owners(run[r].params, run[r].feed_data, oracles)
    IN  UNION {{own[c][i] : i \in DOMAIN own[c]} : c \in LutClasses}

\* C9  Stage ordering within one run: the gateway call is issued only with
\* the snapshot and the job list of every requested feed in hand and no load
\* in flight; keys are sent to load_lookup_tables only in the step that
\* receives the gateway reply, and a run resolving tables holds its quotes;
\* a bundle is returned only by a run none of whose three resolutions has
\* failed and at most the one completing in that step was outstanding, and
\* it carries a table for every owner key of the three classes.
C9_StageOrder ==
    [][\A r \in Runs :
          /\ gwCalls'[r] # gwCalls[r]
                => /\ run'[r].pc = "gateway"
                   /\ Len(run'[r].feed_data) = Len(run'[r].params.feeds)
                   /\ Len(run'[r].jobs) = Len(run'[r].params.feeds)
          /\ run[r].pc = "gateway"
                => /\ Len(run[r].feed_data) = Len(run[r].params.feeds)
                   /\ Len(run[r].jobs) = Len(run[r].params.feeds)
                   /\ run[r].lut_state = IdleLuts
          /\ (run'[r] # run[r] /\ lutFetches' # lutFetches)
                => /\ run[r].pc = "gateway"
                   /\ run'[r].pc = "luts"
                   /\ run'[r].price_signatures.tag = "set"
          /\ run[r].pc = "luts"
                => /\ run[r].price_signatures.tag = "set"
                   /\ \E c \in LutClasses : run[r].lut_state[c] = "wait"
          /\ (run'[r].pc = "done" /\ run[r].pc # "done")
                => /\ run[r].pc \in {"gateway", "luts"}
                   /\ \A c \in LutClasses : run[r].lut_state[c] # "err"
                   /\ Cardinality({c \in LutClasses : run[r].lut_state[c] = "wait"}) <= 1
                   /\ {run'[r].result.luts[i] : i \in DOMAIN run'[r].result.luts}
                          = {Table(o) : o \in OwnerSet(r, run'[r].result.oracles)}
      ]_vars

\* A fetch_update_many_ix call for two feeds has returned a bundle with the
\* four tables of its oracle, its two feeds and its queue, after one gateway
\* call and with the tables fetched by itself.
C9_Witness ==
    \E r \in Runs :
        /\ run[r].pc = "done"
        /\ gwCalls[r] = 1
        /\ run[r].result.luts =
               <<Table(OwnerKey("oracle", 1)), Table(OwnerKey("feed", 1)),
                 Table(OwnerKey("feed", 2)), Table(OwnerKey("queue", 1))>>
        /\ \A r2 \in Runs \ {r} : run[r2].pc = "init"
        /\ lutInserts[OwnerKey("feed", 2)] = 1

\* The step changes run r and no other run.
StepOf(r) == run'[r] # run[r] /\ \A x \in Runs \ {r} : run'[x] = run[x]

\* The network calls issued so far, per kind.
Calls == <<loadCalls, jobCalls, gwCalls, lutFetches>>

\* C10  No partial bundle: a step in which a stage of a run returns an error
\* (a network call fails, the reply is rejected, or a table resolution fails)
\* issues no network call and leaves the run without a bundle, either
\* returning the error or, inside the join!, waiting for the resolutions
\* already in flight; a run with a failed resolution issues no network call
\* and ends with the error and no bundle; a run that has returned an error
\* takes no further step, and every step is the step of one run that is
\* still under way.
C10_NoPartialBundle ==
    [][/\ \E r \in Runs : StepOf(r) /\ run[r].pc \notin Terminal
       /\ \A r \in Runs :
            /\ (StepOf(r) /\ faults' # faults)
                  => /\ Calls' = Calls
                     /\ run'[r].result = None
                     /\ run'[r].pc \in {"failed", "luts"}
                     /\ run'[r].pc = "luts" =>
                            \E c \in LutClasses : run'[r].lut_state[c] = "err"
            /\ (StepOf(r) /\ run'[r].pc = "failed")
                  => /\ Calls' = Calls
                     /\ run'[r] = Returned("failed", None)
            /\ (run[r].pc = "luts" /\ \E c \in LutClasses : run[r].lut_state[c] = "err")
                  => /\ StepOf(r) => Calls' = Calls
                     /\ run'[r].result = None
                     /\ run'[r].pc \in {"luts", "failed", "cancelled"}
            /\ run[r].pc = "failed" => run'[r] = run[r]
            /\ run'[r].result # None => run'[r].pc = "done"
      ]_vars

\* The only run started has failed in a table resolution: it had made its
\* gateway call and sent keys to load_lookup_tables, one resolution failed,
\* another one completed and inserted its table, and no bundle was returned.
C10_Witness ==
    \E r \in Runs :
        /\ run[r] = Returned("failed", None)
        /\ gwCalls[r] = 1
        /\ faults = 1
        /\ \A r2 \in Runs \ {r} : run[r2].pc = "init"
        /\ \E o \in LutOwners : lutFetches[o] = 1 /\ lutInserts[o] = 0
        /\ \E o \in LutOwners : lutInserts[o] = 1

\* The classes of the tables of a list, in order.
ClassesOf(tabs) == [i \in DOMAIN tabs |-> tabs[i].lut_of.cls]

\* n times the class c.
Repeat(c, n) == [i \in 1..n |-> c]

\* C11  Lookup-table fan-in: the step that receives the gateway reply starts
\* all three resolutions at once (every class with a key missing from
\* lut_cache is then in flight); the run returns from the join!, with a
\* bundle or with an error, only in a step in which the last resolution still
\* in flight completes; and a returned bundle lists the oracle tables, then
\* the feed tables, then the queue table: one per oracle response, one per
\* feed, one for the queue, whatever the order in which the resolutions
\* finished.
C11_FanIn ==
    [][\A r \in Runs :
          /\ (run[r].pc = "gateway" /\ run'[r].pc = "luts")
                => \A c \in LutClasses :
                      run'[r].lut_state[c] =
                          IF run'[r].keys_to_fetch[c] = <<>> THEN "ok" ELSE "wait"
          /\ (run[r].pc = "luts" /\ run'[r].pc \in {"done", "failed"})
                => Cardinality({c \in LutClasses : run[r].lut_state[c] = "wait"}) = 1
          /\ (run[r].pc # "done" /\ run'[r].pc = "done")
                => LET res == run'[r].result
                       no == Len(res.oracles)
                       nf == Len(run[r].params.feeds)
                   IN  /\ Len(res.luts) = no + nf + 1
                       /\ ClassesOf(res.luts) =
                              Repeat("oracle", no) \o Repeat("feed", nf) \o <<"queue">>
                       /\ {res.luts[i] : i \in 1..no}
                              = {Table(res.oracles[i]) : i \in 1..no}
                       /\ {res.luts[no + i] : i \in 1..nf}
                              = {Table(OwnerKey("feed", run[r].params.feeds[i])) : i \in 1..nf}
      ]_vars

\* A run has returned the bundle oracle table, feed table, queue table although
\* its queue resolution finished before its oracle resolution: the other run
\* scanned lut_cache in between, found the queue table there and not the
\* oracle table, and each of the three tables was inserted once (by the first
\* run).
C11_Witness ==
    \E r, r2 \in Runs : \E k \in FeedKeys :
        /\ run[r].pc = "done"
        /\ run[r].result.luts =
               <<Table(OwnerKey("oracle", 1)), Table(OwnerKey("feed", k)),
                 Table(OwnerKey("queue", 1))>>
        /\ run[r2].pc = "luts"
        /\ run[r2].luts["queue"] = <<Table(OwnerKey("queue", 1))>>
        /\ run[r2].keys_to_fetch["oracle"] = <<OwnerKey("oracle", 1)>>
        /\ run[r2].lut_state["oracle"] = "wait"
        /\ lutInserts[OwnerKey("queue", 1)] = 1
        /\ lutInserts[OwnerKey("oracle", 1)] = 1
        /\ lutInserts[OwnerKey("feed", k)] = 1
        /\ faults = 0
        /\ cancels = 0

\* ---------------------------------------------------------------------
\* Gateway reply processing (pull_feed.rs 133-178, 249-298, 394-427).
\* The reply of the gateway is the input; the outcome of the section of
\* fetch_update_ix / fetch_update_many_ix that turns it into an
\* instruction is the output.  Signed 128-bit values are scaled to
\* ValueBits bits and the 96-bit mantissa of rust_decimal to DecimalBits.
\* ---------------------------------------------------------------------

MaxReplyLen == 4

ValueBits == 5

DecimalBits == 3

I128_MAX == 2 ^ (ValueBits - 1) - 1

I128_MIN == -(2 ^ (ValueBits - 1))

MAX_I128_REPR == 2 ^ DecimalBits - 1

PRECISION == 18

DigitVal ==
    [c \in {"0", "1", "2", "3", "4", "5", "6", "7", "8", "9"} |->
        CASE c = "0" -> 0 [] c = "1" -> 1 [] c = "2" -> 2 [] c = "3" -> 3
          [] c = "4" -> 4 [] c = "5" -> 5 [] c = "6" -> 6 [] c = "7" -> 7
          [] c = "8" -> 8 [] c = "9" -> 9]

ParseErr == [ok |-> FALSE, val |-> 0]

RECURSIVE Accumulate(_, _, _)
\* core::num from_str_radix: digit by digit, checked multiply and add
\* (subtract for a negative literal), any overflow is an error
Accumulate(s, acc, neg) ==
    IF s = <<>> THEN [ok |-> TRUE, val |-> acc]
    ELSE IF Head(s) \notin DOMAIN DigitVal THEN ParseErr
    ELSE LET d == DigitVal[Head(s)]
             nxt == IF neg THEN acc * 10 - d ELSE acc * 10 + d
         IN  IF nxt > I128_MAX \/ nxt < I128_MIN
             THEN ParseErr
             ELSE Accumulate(Tail(s), nxt, neg)

\* str::parse::<i128>: empty text and a lone sign are errors
parse_i128(s) ==
    IF s = <<>> THEN ParseErr
    ELSE IF Head(s) \in {"+", "-"}
         THEN IF Tail(s) = <<>> THEN ParseErr
              ELSE Accumulate(Tail(s), 0, Head(s) = "-")
         ELSE Accumulate(s, 0, FALSE)

SuccessValues ==
    {<<>>, <<"x">>, <<"5">>, <<"-", "1">>, <<"1", "5">>, <<"5", "5">>}

\* hex text of an oracle key: "zz" does not decode to 32 bytes
HexKeys == {"a1", "b2", "zz"}

hex_decode(h) ==
    IF h = "zz" THEN [ok |-> FALSE, key |-> DefaultKey]
    ELSE [ok |-> TRUE, key |-> IF h = "a1" THEN 1 ELSE 2]

\* base64 text of a signature: "!!" does not decode to 64 bytes
SigTexts == {"c2ln", "!!"}

ZeroSig == "zero64"

base64_decode(t) ==
    IF t = "!!" THEN [ok |-> FALSE, sig |-> ZeroSig]
    ELSE [ok |-> TRUE, sig |-> "sig64"]

FeedEvalResponse(v, err, h, t) ==
    [success_value |-> v, failure_error |-> err, oracle_pubkey |-> h,
     signature |-> t]

\* the responses a gateway can put in a single-feed reply
ResponseKinds ==
    {FeedEvalResponse(v, "", "a1", "c2ln") : v \in SuccessValues}
    \cup {FeedEvalResponse(v, "timeout", "a1", "c2ln") : v \in {<<>>, <<"x">>}}
    \cup {FeedEvalResponse(<<"x">>, "", "zz", "c2ln"),
          FeedEvalResponse(<<"5">>, "", "a1", "!!"),
          FeedEvalResponse(<<"5">>, "", "b2", "c2ln")}

SeqsUpTo(S, n) == UNION {[1..k -> S] : k \in 0..n}

SingleReplies == SeqsUpTo(ResponseKinds, MaxReplyLen)

\* Decimal::from_i128_with_scale panics when the mantissa needs more
\* than 96 bits
from_i128_with_scale(num, scale) ==
    IF num > MAX_I128_REPR \/ num < -MAX_I128_REPR
    THEN [panic |-> TRUE, mantissa |-> 0, scale |-> scale]
    ELSE [panic |-> FALSE, mantissa |-> num, scale |-> scale]

Some(v) == [tag |-> "some", v |-> v]

IsSome(o) == o.tag = "some"

\* the closure of lines 252-275 applied to one gateway response
OracleResponse(x) ==
    LET value == parse_i128(x.success_value)
        key == hex_decode(x.oracle_pubkey)
        dec == from_i128_with_scale(value.val, PRECISION)
    IN  [panic |-> (value.ok /\ dec.panic) \/ ~key.ok,
         value |-> IF value.ok /\ ~dec.panic
                   THEN Some([mantissa |-> dec.mantissa, scale |-> dec.scale])
                   ELSE None,
         error |-> x.failure_error,
         oracle |-> key.key,
         signature |-> base64_decode(x.signature).sig]

OracleResponsesReversed(reply) ==
    [i \in DOMAIN reply |-> OracleResponse(reply[Len(reply) + 1 - i])]

oracle_responses(reply) == [i \in DOMAIN reply |-> OracleResponse(reply[i])]

Parsable(reply) == {i \in DOMAIN reply : parse_i128(reply[i].success_value).ok}

stats_key(oracle) == [stats_of |-> oracle]

AccountMeta(pubkey, is_writable) ==
    [pubkey |-> pubkey, is_signer |-> FALSE, is_writable |-> is_writable]

\* Decimal::rescale to the scale the value already has keeps the mantissa
rescale(dec, scale) ==
    IF dec.scale = scale THEN dec ELSE [mantissa |-> 0, scale |-> scale]

AbsentAsZero(resp) ==
    IF IsSome(resp.value) THEN rescale(resp.value.v, PRECISION).mantissa ELSE 0

\* value_i128 of lines 140-144: the sentinel unless the value is present
SubmissionValue(resp) ==
    IF IsSome(resp.value)
    THEN rescale(resp.value.v, PRECISION).mantissa
    ELSE I128_MAX

Submission(resp) ==
    [value |-> SubmissionValue(resp), signature |-> resp.signature]

SubmitAll(responses) == DOMAIN responses

SubmitValued(responses) == {i \in DOMAIN responses : IsSome(responses[i].value)}

\* the responses that get a submission and two remaining accounts: all
Submitted(responses) == SubmitAll(responses)

RECURSIVE Pick(_, _)
\* the subsequence of s at the positions of the set idx
Pick(s, idx) ==
    IF s = <<>> THEN <<>>
    ELSE LET n == Len(s)
             front == Pick(SubSeq(s, 1, n - 1), idx)
         IN  IF n \in idx THEN Append(front, s[n]) ELSE front

\* the keys of the PullFeedSubmitResponse literal of lines 162-172, in the
\* order of the literal; the access flags of these accounts are given by
\* to_account_metas of that struct and are not modelled
PullFeedSubmitResponse ==
    [i \in 1..9 |->
        [pubkey |->
            <<"feed", "queue", "program_state", "recent_slothashes", "payer",
              "system_program", "reward_vault", "token_program",
              "token_mint">>[i]]]

SubmitStatsReversed(responses) ==
    LET rs == Pick(responses, Submitted(responses))
        n == Len(rs)
        remaining ==
            [i \in DOMAIN rs |-> AccountMeta(rs[i].oracle, FALSE)]
            \o [i \in DOMAIN rs |->
                   AccountMeta(stats_key(rs[n + 1 - i].oracle), TRUE)]
    IN  [submissions |-> [i \in DOMAIN rs |-> Submission(rs[i])],
         remaining_accounts |-> remaining,
         accounts |-> PullFeedSubmitResponse \o remaining]

get_solana_submit_signatures_ix(responses) ==
    LET rs == Pick(responses, Submitted(responses))
        remaining ==
            [i \in DOMAIN rs |-> AccountMeta(rs[i].oracle, FALSE)]
            \o [i \in DOMAIN rs |->
                   AccountMeta(stats_key(rs[i].oracle), TRUE)]
    IN  [submissions |-> [i \in DOMAIN rs |-> Submission(rs[i])],
         remaining_accounts |-> remaining,
         accounts |-> PullFeedSubmitResponse \o remaining]

NO_SUCCESS == "PullFeed.fetchUpdateIx Failure: No successful responses"

GateOpen(n) == n = 0

GateNever(n) == FALSE

\* the zero-success gate of fetch_update_ix
Gate(n) == GateOpen(n)

\* lines 249-298 of fetch_update_ix on one gateway reply
CollectSingleOutcome(reply) ==
    LET rs == oracle_responses(reply)
        n == Cardinality({i \in DOMAIN rs : parse_i128(reply[i].success_value).ok})
    IN  IF \E i \in DOMAIN rs : rs[i].panic THEN [tag |-> "panic"]
        ELSE IF Gate(n) THEN [tag |-> "err", error |-> NO_SUCCESS]
        ELSE [tag |-> "ok",
              ix |-> get_solana_submit_signatures_ix(rs),
              responses |-> [i \in DOMAIN rs |->
                                [value |-> rs[i].value, error |-> rs[i].error,
                                 oracle |-> rs[i].oracle,
                                 signature |-> rs[i].signature]],
              num_successes |-> n]

\* one row of a multi-feed reply: the values of its feed responses, the
\* hex key carried by each of them, and the signature text of the row
FeedEvalManyResponse(vals, h, t) ==
    [feed_responses |->
         [i \in DOMAIN vals |-> FeedEvalResponse(vals[i], "", h, "")],
     signature |-> t]

RowKinds ==
    {FeedEvalManyResponse(vals, "a1", "c2ln") :
        vals \in {<<>>, << <<"5">> >>, << <<"x">> >>, << <<"5">>, <<"x">> >>,
                  << <<"x">>, <<>> >>, << <<"1", "5">> >>}}
    \cup {FeedEvalManyResponse(<< <<"5">> >>, "a1", "!!"),
          FeedEvalManyResponse(<< <<"5">> >>, "zz", "c2ln"),
          FeedEvalManyResponse(<< <<"5">> >>, "b2", "c2ln")}

ManyReplies == SeqsUpTo(RowKinds, MaxReplyLen)

ParseOrDefault(text) ==
    LET v == parse_i128(text) IN IF v.ok THEN v.val ELSE 0

ParseOrMax(text) ==
    LET v == parse_i128(text) IN IF v.ok THEN v.val ELSE I128_MAX

\* success_value.parse().unwrap_or(i128::MAX) of line 400
MultiValue(text) == ParseOrMax(text)

MultiSubmission(x) ==
    [values |-> [i \in DOMAIN x.feed_responses |->
                    MultiValue(x.feed_responses[i].success_value)],
     signature |-> base64_decode(x.signature).sig]

DECODE_FAILURE == "base64:decode failure"

\* lines 416-427: the key of a row is the key of its first feed response
RowKeyPanics(x) ==
    \/ x.feed_responses = <<>>
    \/ ~hex_decode(x.feed_responses[1].oracle_pubkey).ok

RowKey(x) == hex_decode(x.feed_responses[1].oracle_pubkey).key

ManyRemainingReversed(feeds, okeys) ==
    [i \in DOMAIN feeds |-> AccountMeta(feeds[i], TRUE)]
    \o [j \in 1..(2 * Len(okeys)) |->
          IF j % 2 = 1
          THEN AccountMeta(okeys[Len(okeys) + 1 - (j + 1) \div 2], FALSE)
          ELSE AccountMeta(stats_key(okeys[Len(okeys) + 1 - j \div 2]),
                           TRUE)]

\* remaining_accounts of lines 415-435: the feeds, then for each oracle
\* key its account and its stats account
ManyRemaining(feeds, okeys) ==
    [i \in DOMAIN feeds |-> AccountMeta(feeds[i], TRUE)]
    \o [j \in 1..(2 * Len(okeys)) |->
          IF j % 2 = 1
          THEN AccountMeta(okeys[(j + 1) \div 2], FALSE)
          ELSE AccountMeta(stats_key(okeys[j \div 2]), TRUE)]

\* the keys of the fixed accounts of an instruction
Fixed(name) == [account |-> name]

\* get_associated_token_address(&queue, &NATIVE_MINT)
get_associated_token_address(wallet, mint) == [ata_of |-> wallet, mint |-> mint]

\* AccountMeta::new(pubkey, true)
SignerMeta(pubkey) ==
    [pubkey |-> pubkey, is_signer |-> TRUE, is_writable |-> TRUE]

ManyMetasPayerReadonly(queue, payer) ==
    <<AccountMeta(queue, FALSE),
      AccountMeta(Fixed("program_state"), FALSE),
      AccountMeta(Fixed("recent_slothashes"), FALSE),
      AccountMeta(payer, FALSE),
      AccountMeta(Fixed("system_program"), FALSE),
      AccountMeta(get_associated_token_address(queue, Fixed("NATIVE_MINT")),
                  TRUE),
      AccountMeta(Fixed("token_program"), FALSE),
      AccountMeta(Fixed("NATIVE_MINT"), FALSE)>>

\* PullFeedSubmitResponseMany { .. }.to_account_metas(None) of lines 457-468
PullFeedSubmitResponseMany(queue, payer) ==
    <<AccountMeta(queue, FALSE),
      AccountMeta(Fixed("program_state"), FALSE),
      AccountMeta(Fixed("recent_slothashes"), FALSE),
      SignerMeta(payer),
      AccountMeta(Fixed("system_program"), FALSE),
      AccountMeta(get_associated_token_address(queue, Fixed("NATIVE_MINT")),
                  TRUE),
      AccountMeta(Fixed("token_program"), FALSE),
      AccountMeta(Fixed("NATIVE_MINT"), FALSE)>>

\* the queue and the payer of the request whose reply is processed
ManyQueue == Fixed("queue")

ManyPayer == Fixed("payer")

\* lines 394-437 and 454-470 of fetch_update_many_ix on one gateway reply
CollectManyOutcome(feeds, reply) ==
    IF \E i \in DOMAIN reply : ~base64_decode(reply[i].signature).ok
    THEN [tag |-> "err", error |-> DECODE_FAILURE]
    ELSE IF \E i \in DOMAIN reply : RowKeyPanics(reply[i])
    THEN [tag |-> "panic"]
    ELSE [tag |-> "ok",
          ix |-> [submissions |->
                      [i \in DOMAIN reply |-> MultiSubmission(reply[i])],
                  remaining_accounts |->
                      ManyRemaining(
                          feeds, [i \in DOMAIN reply |-> RowKey(reply[i])]),
                  accounts |->
                      PullFeedSubmitResponseMany(ManyQueue, ManyPayer)
                      \o ManyRemaining(
                             feeds,
                             [i \in DOMAIN reply |-> RowKey(reply[i])])]]

CollectSingle ==
    /\ quote.entry = "fetch_update_ix"
    /\ quote.out = None
    /\ quote' = [quote EXCEPT !.out = CollectSingleOutcome(quote.reply)]
    /\ UNCHANGED <<pipelineVars, signer, table, resolver>>

CollectMany ==
    /\ quote.entry = "fetch_update_many_ix"
    /\ quote.out = None
    /\ quote' = [quote EXCEPT
                    !.out = CollectManyOutcome(quote.feeds, quote.reply)]
    /\ UNCHANGED <<pipelineVars, signer, table, resolver>>

QuoteInit ==
    /\ workers = 1
    /\ ContextNew
    /\ resolver = None
    /\ signer = None
    /\ table = None
    /\ quote \in
         [entry : {"fetch_update_ix"}, feeds : {<<1>>},
          reply : SingleReplies, out : {None}]
         \cup [entry : {"fetch_update_many_ix"}, feeds : FeedLists,
               reply : ManyReplies, out : {None}]

QuoteNext == CollectSingle \/ CollectMany

QuoteSpec == QuoteInit /\ [][QuoteNext]_vars

\* ---------------------------------------------------------------------
\* Properties of gateway reply processing (specification QuoteSpec)
\* ---------------------------------------------------------------------

SingleDone == quote # None /\ quote.entry = "fetch_update_ix" /\ quote.out # None

ManyDone ==
    quote # None /\ quote.entry = "fetch_update_many_ix" /\ quote.out # None

ManyParsable(reply) ==
    {i \in DOMAIN reply :
        \E j \in DOMAIN reply[i].feed_responses :
            parse_i128(reply[i].feed_responses[j].success_value).ok}

\* C13: fetch_update_many_ix fails with the no-successful-responses
\* error, and builds no instruction, whenever no oracle response of the
\* reply carries a parsable value (also when the reply has no oracle
\* responses at all).
C13_ManyQuorumGate ==
    (ManyDone /\ ManyParsable(quote.reply) = {}) =>
        (quote.out.tag = "err" /\ quote.out.error = NO_SUCCESS)

\* the parsable values of the reply all fit the decimal type
ValuesFit(reply) ==
    \A i \in Parsable(reply) :
        ~from_i128_with_scale(parse_i128(reply[i].success_value).val,
                              PRECISION).panic

\* C14: for every reply with at least one parsable response (all parsable
\* values being representable), fetch_update_ix does not abort whatever
\* the other responses contain, and every failing response comes back as
\* an entry with absent value and the error text of the gateway.
C14_PerOracleTolerance ==
    (SingleDone /\ Parsable(quote.reply) # {} /\ ValuesFit(quote.reply)) =>
        /\ quote.out.tag = "ok"
        /\ Len(quote.out.responses) = Len(quote.reply)
        /\ \A i \in DOMAIN quote.reply \ Parsable(quote.reply) :
               /\ quote.out.responses[i].value = None
               /\ quote.out.responses[i].error = quote.reply[i].failure_error

\* v and e of a single-feed reply: responses with and without a value
Valid(reply) == Cardinality(Parsable(reply))

Errors(reply) == Len(reply) - Valid(reply)

\* C15 as stated: the instruction built for a reply with v valid values
\* and e errors holds exactly v value/signature pairs and 2*v remaining
\* accounts, and the success count is v.
C15_ValuedPairsOnly ==
    (SingleDone /\ quote.out.tag = "ok") =>
        LET v == Valid(quote.reply)
        IN  /\ quote.out.num_successes = v
            /\ Len(quote.out.ix.submissions) = v
            /\ Len(quote.out.ix.remaining_accounts) = 2 * v

\* C15 amended: the instruction built for a reply with v valid values and
\* e errors holds one value/signature pair per response, v + e in all, in
\* response order, the e failing ones with the sentinel value, and
\* 2 * (v + e) remaining accounts (v + e oracle accounts, then v + e stats
\* accounts); the success count is v.
C15_PairPerResponse ==
    (SingleDone /\ quote.out.tag = "ok") =>
        LET v == Valid(quote.reply)
            e == Errors(quote.reply)
            ix == quote.out.ix
        IN  /\ v >= 1
            /\ quote.out.num_successes = v
            /\ Len(ix.submissions) = v + e
            /\ \A i \in 1..(v + e) :
                   IF i \in Parsable(quote.reply)
                   THEN ix.submissions[i].value =
                            parse_i128(quote.reply[i].success_value).val
                   ELSE ix.submissions[i].value = I128_MAX
            /\ Len(ix.remaining_accounts) = 2 * (v + e)
            /\ \A i \in 1..(v + e) :
                   /\ ix.remaining_accounts[i] =
                          AccountMeta(quote.out.responses[i].oracle, FALSE)
                   /\ ix.remaining_accounts[v + e + i] =
                          AccountMeta(
                              stats_key(quote.out.responses[i].oracle), TRUE)

C15_Witness ==
    /\ SingleDone
    /\ quote.out.tag = "ok"
    /\ Valid(quote.reply) = 3
    /\ Errors(quote.reply) = 1
    /\ quote.out.num_successes = 3
    /\ Len(quote.out.ix.submissions) = 4
    /\ Len(quote.out.ix.remaining_accounts) = 8

\* C16: in the single-feed and in the multi-feed instruction every value
\* that is absent or does not parse is encoded as the maximum signed
\* 128-bit integer, never as 0, and is not counted as a success.
C16_SentinelForAbsence ==
    /\ (SingleDone /\ quote.out.tag = "ok") =>
           /\ \A i \in DOMAIN quote.reply \ Parsable(quote.reply) :
                  /\ quote.out.ix.submissions[i].value = I128_MAX
                  /\ quote.out.ix.submissions[i].value # 0
                  /\ quote.out.responses[i].value = None
           /\ quote.out.num_successes =
                  Len(quote.reply)
                  - Cardinality(DOMAIN quote.reply \ Parsable(quote.reply))
    /\ (ManyDone /\ quote.out.tag = "ok") =>
           \A i \in DOMAIN quote.reply :
               LET fr == quote.reply[i].feed_responses
                   vals == quote.out.ix.submissions[i].values
               IN  /\ Len(vals) = Len(fr)
                   /\ \A j \in DOMAIN fr :
                          ~parse_i128(fr[j].success_value).ok =>
                              (vals[j] = I128_MAX /\ vals[j] # 0)

C16_Witness ==
    /\ ManyDone
    /\ quote.out.tag = "ok"
    /\ Len(quote.reply) = 2
    /\ quote.out.ix.submissions[1].values = <<5, I128_MAX>>
    /\ quote.out.ix.submissions[2].values = <<I128_MAX, I128_MAX>>

\* C29: for the responses r1..rn handed to get_solana_submit_signatures_ix
\* the instruction carries exactly n submissions in response order and,
\* after the fixed accounts, exactly 2n remaining accounts: the n oracle
\* keys in response order, then the n stats keys in the same order, the
\* i-th stats key being the stats account derived from the i-th oracle key.
C29_SingleAccountLayout ==
    (SingleDone /\ quote.out.tag = "ok") =>
        LET r == oracle_responses(quote.reply)
            n == Len(r)
            ix == quote.out.ix
            fixed == Len(ix.accounts) - 2 * n
        IN  /\ Len(ix.submissions) = n
            /\ \A i \in 1..n :
                   /\ ix.submissions[i].signature = r[i].signature
                   /\ ix.submissions[i].value = SubmissionValue(r[i])
            /\ fixed = Len(PullFeedSubmitResponse)
            /\ SubSeq(ix.accounts, 1, fixed) = PullFeedSubmitResponse
            /\ \A i \in 1..n :
                   /\ ix.accounts[fixed + i].pubkey = r[i].oracle
                   /\ ix.accounts[fixed + n + i].pubkey =
                          stats_key(ix.accounts[fixed + i].pubkey)

C29_Witness ==
    /\ SingleDone
    /\ quote.out.tag = "ok"
    /\ Len(quote.reply) = 3
    /\ Len(quote.out.ix.accounts) = 9 + 6
    /\ quote.out.ix.accounts[9 + 1].pubkey = 1
    /\ quote.out.ix.accounts[9 + 2].pubkey = 2
    /\ quote.out.ix.accounts[9 + 3 + 2].pubkey = stats_key(2)
    /\ quote.out.ix.submissions[1].signature
           # quote.out.ix.submissions[3].signature

\* C32: for every gateway reply whose oracle keys decode, fetch_update_ix
\* completes the conversion of every success_value that parses as a signed
\* 128-bit integer v without aborting, and the submission of that response
\* carries exactly v.
C32_ValueFidelity ==
    (/\ SingleDone
     /\ \A i \in DOMAIN quote.reply :
            hex_decode(quote.reply[i].oracle_pubkey).ok) =>
        /\ quote.out.tag # "panic"
        /\ quote.out.tag = "ok" =>
               \A i \in Parsable(quote.reply) :
                   quote.out.ix.submissions[i].value =
                       parse_i128(quote.reply[i].success_value).val

MaxFeedList == 3

QueueFeeds == {1, 2, 3}

QueueKeys == {1, 2}

FirstQueue(queue, feeds, chain) ==
    IF feeds = <<>> THEN queue ELSE chain[Head(feeds)]

RECURSIVE LastQueue(_, _, _)
\* let mut queue = Pubkey::default(), then queue = data.queue for every
\* feed of the list in turn
LastQueue(queue, feeds, chain) ==
    IF feeds = <<>> THEN queue
    ELSE LastQueue(chain[Head(feeds)], Tail(feeds), chain)

\* the queue after the loop of lines 337-377
QueueAfterLoop(queue, feeds, chain) == LastQueue(queue, feeds, chain)

\* the parts of fetch_update_many_ix that use the queue: the key list of
\* the third fetch_and_cache_luts and the fixed accounts
BuildMany ==
    /\ quote.out = None
    /\ LET queue == QueueAfterLoop(DefaultKey, quote.feeds, quote.chain)
       IN  quote' = [quote EXCEPT
                        !.out = [tag |-> "ok",
                                 queue_key |-> <<queue>>,
                                 accounts |->
                                     PullFeedSubmitResponseMany(
                                         queue, ManyPayer)]]
    /\ UNCHANGED <<pipelineVars, signer, table, resolver>>

QueueInit ==
    /\ workers = 1
    /\ ContextNew
    /\ resolver = None
    /\ signer = None
    /\ table = None
    /\ quote \in
         [entry : {"fetch_update_many_ix"},
          chain : [QueueFeeds -> QueueKeys],
          feeds : SeqsUpTo(QueueFeeds, MaxFeedList),
          out : {None}]

QueueNext == BuildMany

QueueSpec == QueueInit /\ [][QueueNext]_vars

\* C36: the queue account of the instruction built by
\* fetch_update_many_ix, the reward vault derived from it and the queue
\* whose lookup table is resolved are all the queue of the snapshot of the
\* last feed of the caller's list, for every feed list, also when the
\* feeds belong to different queues; no list is rejected, and for the
\* empty list the all-zero default key is used.
C36_QueueOfLastFeed ==
    (quote # None /\ quote.out # None) =>
        LET n == Len(quote.feeds)
            q == IF n = 0 THEN DefaultKey ELSE quote.chain[quote.feeds[n]]
        IN  /\ quote.out.tag = "ok"
            /\ quote.out.accounts[1].pubkey = q
            /\ quote.out.accounts[6].pubkey =
                   get_associated_token_address(q, Fixed("NATIVE_MINT"))
            /\ quote.out.queue_key = <<q>>

C36_Witness ==
    /\ quote # None
    /\ quote.out # None
    /\ quote.feeds = <<1, 2>>
    /\ quote.chain[1] = 2
    /\ quote.chain[2] = 1
    /\ quote.out.accounts[1].pubkey = 1
    /\ quote.out.queue_key = <<1>>

\* ---------------------------------------------------------------------
\* Number of signatures requested from the gateway
\* (pull_feed.rs 231-235 and 333-348)
\* ---------------------------------------------------------------------

U8_MAX == 255

\* min_sample_size: u8
SampleSizes == 0..U8_MAX

\* the sample sizes of the feeds of a multi-feed request
ManySampleSizes == {0, 1, 3, 4, U8_MAX}

\* params.num_signatures: Option<u32>
SignatureCounts == {None} \cup {Some(c) : c \in {0, 1, 3, 4, 5, 400}}

\* (x as f64 / 3.0).ceil(): the quotient of two small integers is exact
\* when it is an integer and lies strictly between two integers when it
\* is not, so the result is the least integer k with 3 * k >= x
CeilThird(x) == CHOOSE k \in 0..x : 3 * k >= x /\ 3 * (k - 1) < x

FloorThird(x) == x \div 3

Third(x) == CeilThird(x)

\* lines 231-235
SingleSignatures(min_sample_size, num_signatures) ==
    IF num_signatures = None
    THEN min_sample_size + Third(min_sample_size)
    ELSE num_signatures.v

NoLowerBound(min_sample_size) == 0

\* num_sig_lower_bound of line 345
LowerBound(min_sample_size) == min_sample_size + Third(min_sample_size)

RECURSIVE RaiseToBounds(_, _)
\* the loop of lines 337-348 over the feeds' snapshots
RaiseToBounds(n, sizes) ==
    IF sizes = <<>> THEN n
    ELSE LET b == LowerBound(Head(sizes))
         IN  RaiseToBounds(IF n < b THEN b ELSE n, Tail(sizes))

ManySignaturesLast(sizes, num_signatures) ==
    LET c == IF num_signatures = None THEN 1 ELSE num_signatures.v
    IN  IF sizes = <<>> THEN c
        ELSE RaiseToBounds(c, <<sizes[Len(sizes)]>>)

\* line 333 followed by the loop
ManySignatures(sizes, num_signatures) ==
    RaiseToBounds(IF num_signatures = None THEN 1 ELSE num_signatures.v,
                  sizes)

RequestSingle ==
    /\ signer.entry = "fetch_update_ix"
    /\ signer.requested = None
    /\ signer' = [signer EXCEPT
                     !.requested =
                         Some(SingleSignatures(signer.sizes[1],
                                               signer.num_signatures))]
    /\ UNCHANGED <<pipelineVars, quote, table, resolver>>

RequestMany ==
    /\ signer.entry = "fetch_update_many_ix"
    /\ signer.requested = None
    /\ signer' = [signer EXCEPT
                     !.requested =
                         Some(ManySignatures(signer.sizes,
                                             signer.num_signatures))]
    /\ UNCHANGED <<pipelineVars, quote, table, resolver>>

SignerInit ==
    /\ workers = 1
    /\ ContextNew
    /\ resolver = None
    /\ quote = None
    /\ table = None
    /\ signer \in
         [entry : {"fetch_update_ix"}, sizes : [1..1 -> SampleSizes],
          num_signatures : SignatureCounts, requested : {None}]
         \cup [entry : {"fetch_update_many_ix"},
               sizes : SeqsUpTo(ManySampleSizes, 2),
               num_signatures : SignatureCounts, requested : {None}]

SignerNext == RequestSingle \/ RequestMany

SignerSpec == SignerInit /\ [][SignerNext]_vars

Requested(e) == signer # None /\ signer.entry = e /\ signer.requested # None

\* C17: without an explicit count, fetch_update_ix requests
\* ceil(min_sample_size * 4 / 3) oracles, for every min_sample_size in
\* 0..255: the requested count n is the least integer with
\* 3 * n >= 4 * min_sample_size.
C17_DefaultSignerCount ==
    (Requested("fetch_update_ix") /\ signer.num_signatures = None) =>
        LET n == signer.requested.v
            m == signer.sizes[1]
        IN  /\ 3 * n >= 4 * m
            /\ 3 * (n - 1) < 4 * m

C17_Witness ==
    /\ Requested("fetch_update_ix")
    /\ signer.num_signatures = None
    /\ signer.sizes[1] = 3
    /\ signer.requested = Some(4)

\* C18 as stated: in both entry points a count supplied by the caller is
\* the number of oracles requested, whatever the feeds' min_sample_size.
C18_ExplicitCountExact ==
    \A e \in {"fetch_update_ix", "fetch_update_many_ix"} :
        (Requested(e) /\ signer.num_signatures # None) =>
            signer.requested.v = signer.num_signatures.v

\* C18 amended: in fetch_update_ix a supplied count is requested exactly
\* and the default formula is used only without one; in
\* fetch_update_many_ix the requested number is the supplied count (1
\* without one) raised to min_sample_size + ceil(min_sample_size / 3) of
\* every requested feed, so a supplied count is requested exactly only
\* when no feed's formula value exceeds it.
C18_ExplicitCountFloored ==
    /\ (Requested("fetch_update_ix") /\ signer.num_signatures # None) =>
           signer.requested.v = signer.num_signatures.v
    /\ Requested("fetch_update_many_ix") =>
           LET c == IF signer.num_signatures = None
                    THEN 1 ELSE signer.num_signatures.v
               n == signer.requested.v
               floors == {c} \cup
                         {signer.sizes[i] + CeilThird(signer.sizes[i]) :
                             i \in DOMAIN signer.sizes}
           IN  /\ n \in floors
               /\ \A f \in floors : n >= f

C18_Witness ==
    /\ Requested("fetch_update_many_ix")
    /\ signer.num_signatures = Some(1)
    /\ signer.sizes = <<3, 1>>
    /\ signer.requested = Some(4)

\* C35: the number of oracles fetch_update_many_ix requests is the maximum
\* of the caller's count (1 when absent) and of
\* min_sample_size + ceil(min_sample_size / 3) over the requested feeds;
\* hence it is at least what fetch_update_ix requests by default for each
\* of the requested feeds.
C35_ManyCountFloor ==
    Requested("fetch_update_many_ix") =>
        LET c == IF signer.num_signatures = None
                 THEN 1 ELSE signer.num_signatures.v
            n == signer.requested.v
            sizes == signer.sizes
        IN  /\ n >= c
            /\ \A i \in DOMAIN sizes :
                   /\ 3 * (n - sizes[i]) >= sizes[i]
                   /\ n >= SingleSignatures(sizes[i], None)
            /\ \/ n = c
               \/ \E i \in DOMAIN sizes :
                      /\ 3 * (n - sizes[i]) >= sizes[i]
                      /\ 3 * (n - sizes[i] - 1) < sizes[i]

C35_Witness ==
    /\ Requested("fetch_update_many_ix")
    /\ signer.num_signatures = Some(3)
    /\ signer.sizes = <<4, 1>>
    /\ signer.requested = Some(6)
    /\ SingleSignatures(4, None) = 6
    /\ SingleSignatures(1, None) = 2

\* ---------------------------------------------------------------------
\* max_variance on its way from the feed account to the gateway request
\* (pull_feed.rs 242 and 370, gateway.rs 145 and 181).  The u32 of the
\* request parameters is VarianceBits wide here, the factor 10^9 is
\* 10^ScaleDigits, and the feed's u64 has one bit more than the product
\* of the two, so that both the division and the cast lose information
\* as they do in the program.
\* ---------------------------------------------------------------------

VarianceBits == 3

ScaleDigits == 1

\* 1_000_000_000 of pull_feed.rs 242 and 370, 1e9 of gateway.rs 145, 181
VARIANCE_SCALE == 10 ^ ScaleDigits

U32_RANGE == 2 ^ VarianceBits

FeedVariances == 0..(2 * U32_RANGE * VARIANCE_SCALE - 1)

\* x as u32: the low bits
as_u32(x) == x % U32_RANGE

UnitsRoundedUp(m) ==
    as_u32((m + VARIANCE_SCALE - 1) \div VARIANCE_SCALE)

\* (data.max_variance / 1_000_000_000) as u32
max_variance_units(m) == as_u32(m \div VARIANCE_SCALE)

\* (max_variance.unwrap_or(1) as f64 * 1e9) as u64: a u32 times 10^9 is
\* below 2^53 * 2^9 with at most 53 significant bits, so the product
\* and the cast back are exact
max_variance_body(p) ==
    (IF p = None THEN 1 ELSE p.v) * VARIANCE_SCALE

\* fetch_update_ix builds FetchSignaturesParams and
\* fetch_signatures_from_encoded builds the body
ForwardSingle ==
    /\ signer.entry = "fetch_update_ix"
    /\ signer.body = None
    /\ signer' = [signer EXCEPT
                     !.params = Some(max_variance_units(signer.max_variance)),
                     !.body = Some(max_variance_body(
                                  Some(max_variance_units(
                                           signer.max_variance))))]
    /\ UNCHANGED <<pipelineVars, quote, table, resolver>>

\* fetch_update_many_ix builds a FeedConfig and fetch_signatures_multi
\* builds the feed request
ForwardMany ==
    /\ signer.entry = "fetch_update_many_ix"
    /\ signer.body = None
    /\ signer' = [signer EXCEPT
                     !.params = Some(max_variance_units(signer.max_variance)),
                     !.body = Some(max_variance_body(
                                  Some(max_variance_units(
                                           signer.max_variance))))]
    /\ UNCHANGED <<pipelineVars, quote, table, resolver>>

VarianceInit ==
    /\ workers = 1
    /\ ContextNew
    /\ resolver = None
    /\ quote = None
    /\ table = None
    /\ signer \in
         [entry : {"fetch_update_ix", "fetch_update_many_ix"},
          max_variance : FeedVariances, params : {None}, body : {None}]

VarianceNext == ForwardSingle \/ ForwardMany

VarianceSpec == VarianceInit /\ [][VarianceNext]_vars

Forwarded == signer # None /\ signer.body # None

\* C34 as stated: the max_variance of the gateway request body built from
\* a feed equals the feed's max_variance m, for every m.
C34_ForwardedUnchanged ==
    Forwarded => signer.body.v = signer.max_variance

\* C34 amended: the max_variance of the request body is
\* ((m div 10^9) mod 2^32) * 10^9: m rounded down to a multiple of 10^9
\* while m < 2^32 * 10^9, and it equals m exactly when m is a multiple of
\* 10^9 below 2^32 * 10^9.
C34_ForwardedInUnits ==
    Forwarded =>
        LET m == signer.max_variance
            b == signer.body.v
        IN  /\ b = ((m \div VARIANCE_SCALE) % U32_RANGE) * VARIANCE_SCALE
            /\ m < U32_RANGE * VARIANCE_SCALE =>
                   (b <= m /\ m - b < VARIANCE_SCALE
                    /\ b % VARIANCE_SCALE = 0)
            /\ (b = m) <=>
                   (m % VARIANCE_SCALE = 0 /\ m < U32_RANGE * VARIANCE_SCALE)

C34_Witness ==
    /\ Forwarded
    /\ signer.entry = "fetch_update_many_ix"
    /\ signer.max_variance = U32_RANGE * VARIANCE_SCALE + VARIANCE_SCALE + 1
    /\ signer.params = Some(1)
    /\ signer.body = Some(VARIANCE_SCALE)

\* ---------------------------------------------------------------------
\* Address lookup tables (lut.rs 86-199).  Slots are 64-bit in the
\* program and SlotBits wide here; the slot history holds at most
\* MaxHist entries here and at most MAX_ENTRIES in the program.
\* ---------------------------------------------------------------------

SlotBits == 3

MaxHist == 3

MaxAddresses == 2

MAX_ENTRIES == 512

SLOT_MAX == 2 ^ SlotBits - 1

Slots == 0..SLOT_MAX

RECURSIVE Descending(_)
Descending(h) ==
    \/ Len(h) <= 1
    \/ (h[1] > h[2] /\ Descending(Tail(h)))

\* SlotHashes: the slots of the sysvar, most recent first, no repeats
SlotHistories == {h \in SeqsUpTo(Slots, MaxHist) : Descending(h)}

RECURSIVE binary_search(_, _, _, _)
\* slice::binary_search_by on the half-open range lo..hi of positions
\* (from 0) with the comparator slot.cmp(probe) of SlotHashes::get
binary_search(h, slot, lo, hi) ==
    IF lo >= hi THEN None
    ELSE LET mid == lo + (hi - lo) \div 2
             probe == h[mid + 1]
         IN  IF probe = slot THEN Some(mid)
             ELSE IF slot < probe THEN binary_search(h, slot, mid + 1, hi)
             ELSE binary_search(h, slot, lo, mid)

PositionFound(h, slot) ==
    IF binary_search(h, slot, 0, Len(h)) = None THEN None ELSE Some(0)

\* SlotHashes::position
position(h, slot) == binary_search(h, slot, 0, Len(h))

saturating_sub(a, b) == IF a > b THEN a - b ELSE 0

Activated == [tag |-> "Activated"]

Deactivating(n) == [tag |-> "Deactivating", remaining_blocks |-> n]

Deactivated == [tag |-> "Deactivated"]

StatusHistoryFirst(meta, current_slot, slot_hashes) ==
    IF meta.deactivation_slot = SLOT_MAX THEN Activated
    ELSE IF position(slot_hashes, meta.deactivation_slot) # None
    THEN Deactivating(saturating_sub(
             MAX_ENTRIES, position(slot_hashes, meta.deactivation_slot).v))
    ELSE IF meta.deactivation_slot = current_slot
    THEN Deactivating(MAX_ENTRIES + 1)
    ELSE Deactivated

\* LookupTableMeta::status
status(meta, current_slot, slot_hashes) ==
    IF meta.deactivation_slot = SLOT_MAX THEN Activated
    ELSE IF meta.deactivation_slot = current_slot
    THEN Deactivating(MAX_ENTRIES + 1)
    ELSE IF position(slot_hashes, meta.deactivation_slot) # None
    THEN Deactivating(saturating_sub(
             MAX_ENTRIES, position(slot_hashes, meta.deactivation_slot).v))
    ELSE Deactivated

ActiveWhenActivated(meta, current_slot, slot_hashes) ==
    status(meta, current_slot, slot_hashes).tag = "Activated"

\* LookupTableMeta::is_active
is_active(meta, current_slot, slot_hashes) ==
    status(meta, current_slot, slot_hashes).tag # "Deactivated"

NOT_ACTIVE == "Lookup table is not active"

Ok(v) == [tag |-> "ok", v |-> v]

Err(e) == [tag |-> "err", error |-> e]

ActiveLenInclusive(t, current_slot, slot_hashes) ==
    IF ~is_active(t.meta, current_slot, slot_hashes) THEN Err(NOT_ACTIVE)
    ELSE IF current_slot >= t.meta.last_extended_slot
    THEN Ok(t.addresses)
    ELSE Ok(t.meta.last_extended_slot_start_index)

\* AddressLookupTable::get_active_addresses_len; t.addresses is the
\* number of stored addresses
get_active_addresses_len(t, current_slot, slot_hashes) ==
    IF ~is_active(t.meta, current_slot, slot_hashes) THEN Err(NOT_ACTIVE)
    ELSE IF current_slot > t.meta.last_extended_slot
    THEN Ok(t.addresses)
    ELSE Ok(t.meta.last_extended_slot_start_index)

LookupTableMeta(d, s, k) ==
    [deactivation_slot |-> d, last_extended_slot |-> s,
     last_extended_slot_start_index |-> k]

Status ==
    /\ table.op = "status"
    /\ table.out = None
    /\ table' = [table EXCEPT
                    !.out = status(table.t.meta, table.current_slot,
                                   table.slot_hashes)]
    /\ UNCHANGED <<pipelineVars, quote, signer, resolver>>

GetActiveAddressesLen ==
    /\ table.op = "get_active_addresses_len"
    /\ table.out = None
    /\ table' = [table EXCEPT
                    !.out = get_active_addresses_len(
                                table.t, table.current_slot,
                                table.slot_hashes)]
    /\ UNCHANGED <<pipelineVars, quote, signer, resolver>>

INVALID_INDEX == "Invalid address index"

\* the address stored at index i (from 0) of a table
StoredAddress(i) == [stored_at |-> i]

\* self.addresses of a table with t.addresses stored addresses
addresses(t) == [i \in 1..t.addresses |-> StoredAddress(i - 1)]

\* index lists passed to lookup: u8 indexes, some beyond every table
IndexLists == SeqsUpTo(0..MaxAddresses, 2)

LookupStored(t, current_slot, indexes, slot_hashes) ==
    LET len == get_active_addresses_len(t, current_slot, slot_hashes)
    IN  IF len.tag = "err" THEN len
        ELSE IF len.v > t.addresses THEN [tag |-> "panic"]
        ELSE IF \E i \in DOMAIN indexes : indexes[i] >= t.addresses
        THEN Err(INVALID_INDEX)
        ELSE Ok([i \in DOMAIN indexes |-> addresses(t)[indexes[i] + 1]])

\* AddressLookupTable::lookup; slicing the stored addresses to the active
\* length panics when that length exceeds the number stored
lookup(t, current_slot, indexes, slot_hashes) ==
    LET len == get_active_addresses_len(t, current_slot, slot_hashes)
    IN  IF len.tag = "err" THEN len
        ELSE IF len.v > t.addresses THEN [tag |-> "panic"]
        ELSE LET active_addresses == SubSeq(addresses(t), 1, len.v)
             IN  IF \E i \in DOMAIN indexes :
                        indexes[i] + 1 \notin DOMAIN active_addresses
                 THEN Err(INVALID_INDEX)
                 ELSE Ok([i \in DOMAIN indexes |->
                             active_addresses[indexes[i] + 1]])

Lookup ==
    /\ table.op = "lookup"
    /\ table.out = None
    /\ table' = [table EXCEPT
                    !.out = lookup(table.t, table.current_slot,
                                   table.indexes, table.slot_hashes)]
    /\ UNCHANGED <<pipelineVars, quote, signer, resolver>>

TableInit ==
    /\ workers = 1
    /\ ContextNew
    /\ resolver = None
    /\ quote = None
    /\ signer = None
    /\ \/ \E d \in Slots, c \in Slots, h \in SlotHistories :
            table = [op |-> "status",
                     t |-> [meta |-> LookupTableMeta(d, 0, 0),
                            addresses |-> 0],
                     current_slot |-> c, slot_hashes |-> h, out |-> None]
       \/ \E d \in Slots, c \in Slots, s \in Slots,
             k \in 0..MaxAddresses, n \in 0..MaxAddresses :
            \E h \in {<<>>, <<d>>} :
                table = [op |-> "get_active_addresses_len",
                         t |-> [meta |-> LookupTableMeta(d, s, k),
                                addresses |-> n],
                         current_slot |-> c, slot_hashes |-> h,
                         out |-> None]
       \/ \E d \in {0, SLOT_MAX}, s \in Slots,
             k \in 0..MaxAddresses, n \in 0..MaxAddresses,
             ix \in IndexLists :
            \E c \in Slots \cap {s - 1, s, s + 1} :
                table = [op |-> "lookup",
                         t |-> [meta |-> LookupTableMeta(d, s, k),
                                addresses |-> n],
                         current_slot |-> c, slot_hashes |-> <<>>,
                         indexes |-> ix, out |-> None]

TableNext == Status \/ GetActiveAddressesLen \/ Lookup

TableSpec == TableInit /\ [][TableNext]_vars

StatusDone == table # None /\ table.op = "status" /\ table.out # None

\* the positions (0 = most recent) at which a slot occurs in a history
PositionsOf(h, slot) == {p \in 0..(Len(h) - 1) : h[p + 1] = slot}

\* C19: the status is determined by (deactivation_slot, current_slot,
\* slot history) by these rules in this order: deactivation_slot equal to
\* the maximum slot gives Activated; else deactivation_slot equal to
\* current_slot gives Deactivating with MAX_ENTRIES + 1 remaining, also
\* when the slot is in the history; else deactivation_slot at position p
\* of the history gives Deactivating with MAX_ENTRIES - p remaining; else
\* Deactivated.
C19_StatusRules ==
    StatusDone =>
        LET d == table.t.meta.deactivation_slot
            c == table.current_slot
            ps == PositionsOf(table.slot_hashes, d)
        IN  /\ d = SLOT_MAX => table.out = Activated
            /\ (d # SLOT_MAX /\ d = c) =>
                   table.out = Deactivating(MAX_ENTRIES + 1)
            /\ (d # SLOT_MAX /\ d # c /\ ps # {}) =>
                   \E p \in ps : table.out = Deactivating(MAX_ENTRIES - p)
            /\ (d # SLOT_MAX /\ d # c /\ ps = {}) =>
                   table.out = Deactivated

C19_Witness ==
    /\ StatusDone
    /\ table.slot_hashes = <<5, 4, 3>>
    /\ table.t.meta.deactivation_slot = 4
    /\ table.current_slot = 6
    /\ table.out = Deactivating(MAX_ENTRIES - 1)

LenDone ==
    table # None /\ table.op = "get_active_addresses_len" /\ table.out # None

\* C20: for an active table last extended at slot S with
\* last_extended_slot_start_index = k, get_active_addresses_len returns
\* exactly k at current_slot = S and the full number of stored addresses
\* at every current_slot > S.
C20_SameSlotExtension ==
    (LenDone /\ is_active(table.t.meta, table.current_slot,
                          table.slot_hashes)) =>
        LET S == table.t.meta.last_extended_slot
            k == table.t.meta.last_extended_slot_start_index
        IN  /\ table.current_slot = S => table.out = Ok(k)
            /\ table.current_slot > S => table.out = Ok(table.t.addresses)

C20_Witness ==
    /\ LenDone
    /\ table.t.meta.deactivation_slot = SLOT_MAX
    /\ table.t.meta.last_extended_slot = 4
    /\ table.current_slot = 4
    /\ table.t.meta.last_extended_slot_start_index = 1
    /\ table.t.addresses = 2
    /\ table.out = Ok(1)

LookupDone == table # None /\ table.op = "lookup" /\ table.out # None

C37_ActivePrefixWithinStored ==
    /\ (LenDone /\ table.out.tag = "ok") => table.out.v <= table.t.addresses
    /\ LookupDone => table.out.tag # "panic"

MaxCalls == 2

ResolveOwners == {1, 2}

EmptyBytes == [kind |-> "empty"]

\* what get_multiple_accounts returns for an owner key: no account, an
\* account of fewer than 8 bytes, one whose body is not a T, or a T
OwnerAccounts ==
    {None, Some([kind |-> "short"]), Some([kind |-> "odd"]),
     Some([kind |-> "pod", lut_slot |-> 1])}

\* what it returns for a table address: no account, bytes that are no
\* program state, an uninitialized state, or a table
LutAccounts(o) ==
    {None, Some([kind |-> "garbage"]), Some([kind |-> "uninit"]),
     Some([kind |-> "table", addresses |-> <<StoredAddress(o)>>])}

Chains ==
    {[owner |-> oa, lut |-> la] :
        oa \in [ResolveOwners -> OwnerAccounts],
        la \in {f \in [ResolveOwners -> UNION {LutAccounts(o) :
                                                o \in ResolveOwners}] :
                   \A o \in ResolveOwners : f[o] \in LutAccounts(o)}}

\* the outcome of the two batched fetches of one call
RpcOutcomes == {"ok", "first fails", "second fails"}

KeyLists == SeqsUpTo(ResolveOwners, 2)

\* account_to_vec: the bytes after the discriminator, none for a missing
\* or too short account
account_to_vec(account) ==
    IF account = None THEN EmptyBytes
    ELSE IF account.v.kind = "short" THEN EmptyBytes
    ELSE account.v

\* bytemuck::try_from_bytes::<T>: the slice must have the size of T
try_from_bytes(bytes) ==
    IF bytes.kind = "pod" THEN Ok(bytes) ELSE Err("size mismatch")

find_lut_signer(k) == [lut_signer_of |-> k]

derive_lookup_table_address(lut_signer, lut_slot) ==
    [authority |-> lut_signer, recent_slot |-> lut_slot]

\* data.unwrap_or_default().data of line 87
unwrap_or_default(account) ==
    IF account = None THEN EmptyBytes ELSE account.v

\* AddressLookupTable::deserialize: bincode needs a program state, and
\* the state must be a table
deserialize(data) ==
    IF data.kind = "table" THEN Ok(data) ELSE Err("InvalidAccountData")

INVALID_DATA == "LutOwner.load_lookup_tables: Invalid data"

INVALID_LUT_DATA == "LutOwner.load_lookup_tables: Invalid LUT data"

RPC_ERROR == "rpc error"

LutKeyOf(chain, k) ==
    derive_lookup_table_address(
        find_lut_signer(k), account_to_vec(chain.owner[k]).lut_slot)

\* load_lookup_tables; network is the number of batched fetches sent
load_lookup_tables(chain, keys, rpc) ==
    IF rpc = "first fails" THEN [out |-> Err(RPC_ERROR), network |-> 1]
    ELSE IF \E i \in DOMAIN keys :
               try_from_bytes(account_to_vec(chain.owner[keys[i]])).tag = "err"
    THEN [out |-> Err(INVALID_DATA), network |-> 1]
    ELSE IF rpc = "second fails" THEN [out |-> Err(RPC_ERROR), network |-> 2]
    ELSE IF \E i \in DOMAIN keys :
               deserialize(unwrap_or_default(chain.lut[keys[i]])).tag = "err"
    THEN [out |-> Err(INVALID_LUT_DATA), network |-> 2]
    ELSE [out |-> Ok([i \in DOMAIN keys |->
                        [key |-> LutKeyOf(chain, keys[i]),
                         addresses |->
                             deserialize(unwrap_or_default(
                                 chain.lut[keys[i]])).v.addresses]]),
          network |-> 2]

RECURSIVE InsertAll(_, _, _)
\* lut_cache.insert for each (key, lut) pair of the zip, in order
InsertAll(cache, keys, luts) ==
    IF keys = <<>> \/ luts = <<>> THEN cache
    ELSE InsertAll([cache EXCEPT ![Head(keys)] = Some(Head(luts))],
                   Tail(keys), Tail(luts))

AlwaysFetch(cache, keys) == keys

Uncached(cache, keys) == SelectSeq(keys, LAMBDA k : cache[k] = None)

\* keys_to_fetch of lines 61-67
ToFetch(cache, keys) == Uncached(cache, keys)

InsertBeforeParse(cache, keys, chain, fetched) ==
    IF fetched.out.tag = "ok" THEN InsertAll(cache, keys, fetched.out.v)
    ELSE [k \in DOMAIN cache |->
            IF /\ \E i \in DOMAIN keys : keys[i] = k
               /\ fetched.network = 2
               /\ try_from_bytes(account_to_vec(chain.owner[k])).tag = "ok"
               /\ deserialize(unwrap_or_default(chain.lut[k])).tag = "ok"
            THEN Some([key |-> LutKeyOf(chain, k),
                       addresses |-> chain.lut[k].v.addresses])
            ELSE cache[k]]

InsertOnSuccess(cache, keys, chain, fetched) ==
    IF fetched.out.tag = "ok" THEN InsertAll(cache, keys, fetched.out.v)
    ELSE cache

\* the cache after lines 69-75: nothing is inserted when the ? returns
CacheAfter(cache, keys, chain, fetched) ==
    InsertOnSuccess(cache, keys, chain, fetched)

FetchPositional(cache, chain, keys, rpc) ==
    LET keys_to_fetch == ToFetch(cache, keys)
        fetched == load_lookup_tables(chain, keys_to_fetch, rpc)
        after == CacheAfter(cache, keys_to_fetch, chain, fetched)
    IN  IF keys_to_fetch = <<>>
        THEN [out |-> Ok([i \in DOMAIN keys |-> cache[keys[i]].v]),
              cache |-> cache, sent |-> <<>>, network |-> 0]
        ELSE [out |-> IF fetched.out.tag = "ok"
                      THEN Ok([i \in DOMAIN keys |-> after[keys[i]].v])
                      ELSE fetched.out,
              cache |-> after,
              sent |-> keys_to_fetch,
              network |-> fetched.network]

\* fetch_and_cache_luts: out, the cache it leaves, the keys sent to
\* load_lookup_tables and the number of batched fetches
fetch_and_cache_luts(cache, chain, keys, rpc) ==
    LET hits == SelectSeq(keys, LAMBDA k : cache[k] # None)
        luts == [i \in DOMAIN hits |-> cache[hits[i]].v]
        keys_to_fetch == ToFetch(cache, keys)
        fetched == load_lookup_tables(chain, keys_to_fetch, rpc)
    IN  IF keys_to_fetch = <<>>
        THEN [out |-> Ok(luts), cache |-> cache, sent |-> <<>>,
              network |-> 0]
        ELSE [out |-> IF fetched.out.tag = "ok"
                      THEN Ok(luts \o fetched.out.v) ELSE fetched.out,
              cache |-> CacheAfter(cache, keys_to_fetch, chain, fetched),
              sent |-> keys_to_fetch,
              network |-> fetched.network]

\* one call of fetch_and_cache_luts on the context
Resolve ==
    /\ resolver.calls < MaxCalls
    /\ \E keys \in KeyLists, rpc \in RpcOutcomes :
         LET r == fetch_and_cache_luts(resolver.cache, resolver.chain,
                                       keys, rpc)
         IN  resolver' =
                 [chain |-> resolver.chain,
                  cache |-> r.cache,
                  calls |-> resolver.calls + 1,
                  succeeded |->
                      IF r.out.tag = "ok"
                      THEN resolver.succeeded
                           \cup {keys[i] : i \in DOMAIN keys}
                      ELSE resolver.succeeded,
                  last |-> [keys |-> keys, rpc |-> rpc, out |-> r.out,
                            sent |-> r.sent, network |-> r.network,
                            before |-> resolver.cache,
                            retry |-> /\ resolver.last # None
                                      /\ resolver.last.out.tag = "err"
                                      /\ resolver.last.keys = keys]]
    /\ UNCHANGED <<pipelineVars, quote, signer, table>>

\* a new SbContext: the dashmap is empty
ResolveInit ==
    /\ workers = 1
    /\ ContextNew
    /\ quote = None
    /\ signer = None
    /\ table = None
    /\ \E ch \in Chains :
         resolver = [chain |-> ch,
                     cache |-> [o \in ResolveOwners |-> None],
                     calls |-> 0,
                     succeeded |-> {},
                     last |-> None]

ResolveNext == Resolve

ResolveSpec == ResolveInit /\ [][ResolveNext]_vars

Resolved == resolver # None /\ resolver.last # None

\* every account the last call asked for is either well formed or
\* not found, and some account was not found
OnlyNotFound ==
    /\ resolver.last.rpc = "ok"
    /\ \A i \in DOMAIN resolver.last.sent :
         LET k == resolver.last.sent[i]
         IN  /\ resolver.chain.owner[k] = None
                \/ resolver.chain.owner[k].v.kind = "pod"
             /\ resolver.chain.lut[k] = None
                \/ resolver.chain.lut[k].v.kind = "table"
    /\ \E i \in DOMAIN resolver.last.sent :
         \/ resolver.chain.owner[resolver.last.sent[i]] = None
         \/ resolver.chain.lut[resolver.last.sent[i]] = None

\* C22: when the batched fetch returns not-found for an owner account or
\* for a derived table address (and nothing else is wrong),
\* fetch_and_cache_luts does not fail and returns one result per
\* requested owner key.
C22_NotFoundTolerated ==
    (Resolved /\ OnlyNotFound) =>
        /\ resolver.last.out.tag = "ok"
        /\ Len(resolver.last.out.v) = Len(resolver.last.keys)

\* C23: a successful fetch_and_cache_luts leaves, under each owner key it
\* was called with, an entry that holds the table derived from that
\* owner; entries once made are kept; and a later call whose keys all
\* belong to earlier successful calls sends nothing to the network and
\* returns, position by position, the tables cached under its keys.
C23_OwnerKeyedShortCircuit ==
    [][LET keys == resolver'.last.keys
           K == {keys[i] : i \in DOMAIN keys}
       IN  /\ resolver'.last.out.tag = "ok" =>
                \A k \in K :
                    /\ resolver'.cache[k] # None
                    /\ resolver'.cache[k].v.key =
                           LutKeyOf(resolver.chain, k)
           /\ \A o \in ResolveOwners :
                resolver.cache[o] # None =>
                    resolver'.cache[o] = resolver.cache[o]
           /\ K \subseteq resolver.succeeded =>
                /\ resolver'.last.network = 0
                /\ resolver'.last.sent = <<>>
                /\ resolver'.last.out =
                       Ok([i \in DOMAIN keys |-> resolver.cache[keys[i]].v])
      ]_vars

C23_Witness ==
    /\ Resolved
    /\ resolver.calls = 2
    /\ resolver.last.keys = <<2, 1>>
    /\ resolver.last.before[1] # None
    /\ resolver.last.before[2] # None
    /\ resolver.last.network = 0
    /\ resolver.last.out.tag = "ok"
    /\ Len(resolver.last.out.v) = 2

\* C30: a call of fetch_and_cache_luts that fails (a batched fetch fails,
\* an owner account does not parse, or a table does not deserialize)
\* inserts nothing into lut_cache, not even for the keys of the batch
\* whose data was valid, and the next call with the same keys sends the
\* same keys to the network again.
C30_FailureLeavesCache ==
    [][/\ resolver'.last.out.tag = "err" =>
            /\ resolver'.cache = resolver.cache
            /\ resolver'.last.sent # <<>>
       /\ resolver'.last.retry =>
            /\ resolver'.last.sent = resolver.last.sent
            /\ resolver'.last.network >= 1
      ]_vars

C30_Witness ==
    /\ Resolved
    /\ resolver.last.retry
    /\ resolver.last.keys = <<1, 2>>
    /\ resolver.last.out = Err(INVALID_LUT_DATA)
    /\ resolver.chain.owner[1] # None
    /\ resolver.chain.owner[1].v.kind = "pod"
    /\ resolver.chain.lut[1] # None
    /\ resolver.chain.lut[1].v.kind = "table"
    /\ resolver.cache[1] = None
    /\ resolver.cache[2] = None
    /\ resolver.last.sent = <<1, 2>>
    /\ resolver.last.network = 2

\* the table of owner key k as the chain holds it
TableOf(chain, k) ==
    [key |-> LutKeyOf(chain, k), addresses |-> chain.lut[k].v.addresses]

\* C31 as stated: a successful fetch_and_cache_luts returns one table per
\* input key and the i-th returned table is the table of the i-th input
\* owner key, whether the key was cached or fetched.
C31_PositionalTables ==
    (Resolved /\ resolver.last.out.tag = "ok") =>
        /\ Len(resolver.last.out.v) = Len(resolver.last.keys)
        /\ \A i \in DOMAIN resolver.last.keys :
               resolver.last.out.v[i] =
                   TableOf(resolver.chain, resolver.last.keys[i])

\* C31 amended: a successful fetch_and_cache_luts returns one table per
\* input key: first the tables of the keys that were cached when the call
\* began, in input order, then the tables of the keys it fetched, in
\* input order; the i-th table belongs to the i-th key only when no
\* fetched key precedes a cached key in the input.
C31_CachedThenFetched ==
    (Resolved /\ resolver.last.out.tag = "ok") =>
        LET keys == resolver.last.keys
            before == resolver.last.before
            hits == SelectSeq(keys, LAMBDA k : before[k] # None)
            misses == SelectSeq(keys, LAMBDA k : before[k] = None)
            order == hits \o misses
        IN  /\ Len(resolver.last.out.v) = Len(keys)
            /\ resolver.last.sent = misses
            /\ \A i \in DOMAIN order :
                   resolver.last.out.v[i] = TableOf(resolver.chain, order[i])
            /\ order = keys =>
                   \A i \in DOMAIN keys :
                       resolver.last.out.v[i] =
                           TableOf(resolver.chain, keys[i])

C31_Witness ==
    /\ Resolved
    /\ resolver.last.out.tag = "ok"
    /\ resolver.last.keys = <<1, 2>>
    /\ resolver.last.before[1] = None
    /\ resolver.last.before[2] # None
    /\ resolver.last.sent = <<1>>
    /\ resolver.last.out.v[1] = TableOf(resolver.chain, 2)
    /\ resolver.last.out.v[2] = TableOf(resolver.chain, 1)

\* C24: in the instruction built by fetch_update_many_ix the remaining
\* accounts are the feed accounts in the caller's order, followed by one
\* (oracle account, stats account of that oracle) pair per oracle response
\* in the order of the gateway's list; they are fixed by the request and
\* the reply alone.
C24_ManyAccountOrder ==
    (ManyDone /\ quote.out.tag = "ok") =>
        LET ra == quote.out.ix.remaining_accounts
            nf == Len(quote.feeds)
        IN  /\ Len(ra) = nf + 2 * Len(quote.reply)
            /\ \A i \in 1..nf : ra[i].pubkey = quote.feeds[i]
            /\ \A j \in DOMAIN quote.reply :
                 LET oracle ==
                         hex_decode(quote.reply[j].feed_responses[1]
                                        .oracle_pubkey).key
                 IN  /\ ra[nf + 2 * j - 1].pubkey = oracle
                     /\ ra[nf + 2 * j].pubkey = stats_key(oracle)

C24_Witness ==
    /\ ManyDone
    /\ quote.out.tag = "ok"
    /\ quote.feeds = <<1, 2>>
    /\ Len(quote.reply) = 2
    /\ quote.reply[1].feed_responses[1].oracle_pubkey = "b2"
    /\ quote.reply[2].feed_responses[1].oracle_pubkey = "a1"
    /\ quote.out.ix.remaining_accounts[3].pubkey = 2
    /\ quote.out.ix.remaining_accounts[5].pubkey = 1

\* positions of the account list of a multi-feed instruction
FixedPositions == DOMAIN PullFeedSubmitResponseMany(ManyQueue, ManyPayer)

PayerPositions ==
    {i \in FixedPositions :
        PullFeedSubmitResponseMany(ManyQueue, ManyPayer)[i].pubkey = ManyPayer}

VaultPositions ==
    {i \in FixedPositions :
        PullFeedSubmitResponseMany(ManyQueue, ManyPayer)[i].pubkey =
            get_associated_token_address(ManyQueue, Fixed("NATIVE_MINT"))}

FeedPositions ==
    {Cardinality(FixedPositions) + i : i \in 1..Len(quote.feeds)}

OraclePositions ==
    {Cardinality(FixedPositions) + Len(quote.feeds) + 2 * j - 1 :
        j \in DOMAIN quote.reply}

StatsPositions ==
    {Cardinality(FixedPositions) + Len(quote.feeds) + 2 * j :
        j \in DOMAIN quote.reply}

\* C25 as stated, on the multi-feed instruction: oracle accounts are
\* read-only non-signers, stats accounts writable non-signers, the payer
\* a writable signer, the reward vault a writable non-signer, and every
\* other account of the list a read-only non-signer.
C25_OthersReadOnly ==
    (ManyDone /\ quote.out.tag = "ok") =>
        LET acc == quote.out.ix.accounts
        IN  \A i \in DOMAIN acc :
                /\ acc[i].is_signer <=> i \in PayerPositions
                /\ acc[i].is_writable <=>
                       i \in PayerPositions \cup VaultPositions
                             \cup StatsPositions

\* C25 amended: in the multi-feed instruction the payer is the only
\* signer, and the writable accounts are exactly the payer, the reward
\* vault, the feed accounts and the stats accounts (the oracle accounts
\* and the other fixed accounts are read-only); in the single-feed
\* instruction the remaining accounts are n read-only non-signer oracle
\* accounts followed by n writable non-signer stats accounts.
C25_AccessFlags ==
    /\ (ManyDone /\ quote.out.tag = "ok") =>
           LET acc == quote.out.ix.accounts
           IN  /\ DOMAIN acc = FixedPositions \cup FeedPositions
                                \cup OraclePositions \cup StatsPositions
               /\ Cardinality(PayerPositions) = 1
               /\ Cardinality(VaultPositions) = 1
               /\ \A i \in DOMAIN acc :
                      /\ acc[i].is_signer <=> i \in PayerPositions
                      /\ acc[i].is_writable <=>
                             i \in PayerPositions \cup VaultPositions
                                   \cup FeedPositions \cup StatsPositions
    /\ (SingleDone /\ quote.out.tag = "ok") =>
           LET ra == quote.out.ix.remaining_accounts
               n == Len(quote.reply)
           IN  /\ Len(ra) = 2 * n
               /\ \A i \in 1..n :
                      /\ ~ra[i].is_signer /\ ~ra[i].is_writable
                      /\ ~ra[n + i].is_signer /\ ra[n + i].is_writable

C25_Witness ==
    /\ ManyDone
    /\ quote.out.tag = "ok"
    /\ quote.feeds = <<1, 2>>
    /\ Len(quote.reply) = 2
    /\ Len(quote.out.ix.accounts) = Cardinality(FixedPositions) + 6
    /\ quote.out.ix.accounts[Cardinality(FixedPositions) + 1].is_writable
    /\ ~quote.out.ix.accounts[Cardinality(FixedPositions) + 3].is_writable

\* the texts an error message of the reply-processing section is made
\* of: format! at line 284 has no arguments, so the message is constant
MessageParts(error) ==
    IF error = NO_SUCCESS
    THEN {"PullFeed.fetchUpdateIx Failure", "No successful responses"}
    ELSE {error}

\* C26: when fetch_update_ix fails because no response was usable, the
\* error names the failing stage and carries every error string the
\* gateway reported for the responses.
C26_ErrorCarriesOracleErrors ==
    (SingleDone /\ quote.out.tag = "err") =>
        /\ "PullFeed.fetchUpdateIx Failure" \in MessageParts(quote.out.error)
        /\ \A i \in DOMAIN quote.reply :
               quote.reply[i].failure_error # "" =>
                   quote.reply[i].failure_error
                       \in MessageParts(quote.out.error)

\* C27: whenever fetch_update_ix returns successfully, the success count
\* is the number of returned responses whose value is present, it lies
\* between 1 and the number of responses, and the returned list has one
\* entry per gateway response, in gateway order.
C27_SuccessCount ==
    (SingleDone /\ quote.out.tag = "ok") =>
        LET rs == quote.out.responses
            present == {i \in DOMAIN rs : IsSome(rs[i].value)}
        IN  /\ quote.out.num_successes = Cardinality(present)
            /\ 1 <= quote.out.num_successes
            /\ quote.out.num_successes <= Len(rs)
            /\ Len(rs) = Len(quote.reply)
            /\ \A i \in DOMAIN rs :
                   /\ rs[i].oracle = hex_decode(quote.reply[i].oracle_pubkey).key
                   /\ rs[i].error = quote.reply[i].failure_error
                   /\ IsSome(rs[i].value) <=> i \in Parsable(quote.reply)

C27_Witness ==
    /\ SingleDone
    /\ quote.out.tag = "ok"
    /\ Len(quote.reply) = 3
    /\ quote.out.num_successes = 2
    /\ quote.out.responses[1].oracle = 2
    /\ quote.out.responses[2].oracle = 1
    /\ quote.out.responses[2].value = None
    /\ quote.out.responses[2].error = "timeout"

\* ---------------------------------------------------------------------
\* Cool-down of a deactivated table (lut.rs 97-120): the clock advances
\* one slot at a time, the slot history takes the slot just left at its
\* front and keeps at most MaxHist slots, and the status is evaluated at
\* every slot.
\* ---------------------------------------------------------------------

\* the history after one more slot: newest first, oldest dropped
Push(h, slot) ==
    LET all == <<slot>> \o h
    IN  IF Len(all) > MaxHist THEN SubSeq(all, 1, MaxHist) ELSE all

\* deactivation slots from which the cool-down ends before the last slot
CooldownStarts == {d \in Slots : d + MaxHist + 1 <= SLOT_MAX}

\* LookupTableMeta::status at the current slot
Evaluate ==
    /\ table.out = None
    /\ table' = [table EXCEPT
                    !.out = status(table.t.meta, table.current_slot,
                                   table.slot_hashes)]
    /\ UNCHANGED <<pipelineVars, quote, signer, resolver>>

\* the next slot begins
Tick ==
    /\ table.out # None
    /\ table.current_slot < SLOT_MAX
    /\ table' = [table EXCEPT
                    !.current_slot = table.current_slot + 1,
                    !.slot_hashes = Push(table.slot_hashes,
                                         table.current_slot),
                    !.last = table.out,
                    !.out = None]
    /\ UNCHANGED <<pipelineVars, quote, signer, resolver>>

CooldownInit ==
    /\ workers = 1
    /\ ContextNew
    /\ resolver = None
    /\ quote = None
    /\ signer = None
    /\ \E d \in CooldownStarts :
         \E h \in {g \in SlotHistories : \A i \in DOMAIN g : g[i] < d} :
             table = [op |-> "cooldown",
                      t |-> [meta |-> LookupTableMeta(d, 0, 0),
                             addresses |-> 0],
                      current_slot |-> d, slot_hashes |-> h,
                      last |-> None, out |-> None]

CooldownNext == Evaluate \/ Tick

CooldownSpec == CooldownInit /\ [][CooldownNext]_vars

\* the clock does not stop and every slot is evaluated
CooldownLive == CooldownSpec /\ WF_vars(Evaluate) /\ WF_vars(Tick)

CooldownRuns ==
    /\ table.out # None =>
           /\ table.out.tag # "Activated"
           /\ table.current_slot = table.t.meta.deactivation_slot =>
                  table.out = Deactivating(MAX_ENTRIES + 1)
    /\ (table.out # None /\ table.last # None) =>
           /\ (table.last.tag = "Deactivating"
               /\ table.out.tag = "Deactivating") =>
                  table.out.remaining_blocks < table.last.remaining_blocks
           /\ table.last.tag = "Deactivated" =>
                  table.out.tag = "Deactivated"

\* C28: for a table with a fixed deactivation_slot d other than the
\* maximum slot, evaluated at d and then at every following slot while
\* the history takes each slot left, the status is Deactivating with
\* MAX_ENTRIES + 1 remaining at d, the remaining count strictly decreases
\* from one evaluation to the next while Deactivating, the status
\* eventually is Deactivated, and after Deactivated it is never
\* Deactivating or Activated again.
C28_CooldownRunsDown ==
    /\ []CooldownRuns
    /\ <>(table.out = Deactivated)
    /\ [](table.out = Deactivated => [](table.out \in {None, Deactivated}))

C28_Witness ==
    /\ table # None
    /\ table.op = "cooldown"
    /\ table.out = Deactivated
    /\ table.last = Deactivating(MAX_ENTRIES - (MaxHist - 1))

====
